---- MODULE Spec2Model ----
(***************************************************************************)
(* The transaction-graph traversal engine (GraphTraversal) run against a   *)
(* blockchain data provider.  One GraphTraversal instance, the coroutines  *)
(* that execute its asynchronous methods, and the provider's answers.      *)
(*                                                                         *)
(* Granularity: JavaScript runs a handler to its next await of a provider  *)
(* call without interruption, so one action is one such run: an external   *)
(* call (startTraversal, pause, resume, stop) or the return of one         *)
(* provider call, each followed by everything the code does until it       *)
(* awaits the provider again or returns.                                   *)
(***************************************************************************)
EXTENDS Integers, Sequences, FiniteSets, TLC

\* ---------------------------------------------------------------- bounds
\* processQueue loops started by resume() that may be alive at the same time
MaxLoops == 1
\* the constructor's maxDepth argument ranges over 0..MaxDepthArg
MaxDepthArg == 2
\* the constructor's minValueBSV argument ranges over 0..MaxMinValue
MaxMinValue == 1
\* the Merkle tree visualizer is given 1..MaxLeaves data items
MaxLeaves == 5
\* the data items are 1..MaxItem
MaxItem == 2
\* validateBumpData is given 0..MaxTxids transaction ids, and the block it
\* fetches has 0..MaxTxids transactions
MaxTxids == 2
\* the serialised transactions given to parseTransactionDetails have
\* 0..MaxIns inputs and 0..MaxOuts outputs with scripts of 0..MaxScript bytes
MaxIns == 1
MaxOuts == 1
MaxScript == 1
\* the callers of the request queue pass it the requests 1..MaxRequests
MaxRequests == 3
\* the API proxy receives the POST requests 1..MaxPosts
MaxPosts == 3
\* the blocks whose BUMPs validateMerklePath is given have 1..MaxBlockTx
\* transactions
MaxBlockTx == 4
\* the parsed BEEF of the parser page has the BUMPs 1..MaxBumps
MaxBumps == 2

\* ---------------------------------------------------------------- provider
\* The provider's transactions: the root, two ordinary transactions and one
\* whose outputs sum to zero.  Which output is spent by which transaction is
\* the provider's answer, chosen when the spent-status call returns.
RootTxid == "r"

TxIds == {"r", "a", "b", "f"}

\* a provider with one more ordinary transaction
WideTxIds == TxIds \cup {"c"}

Unspent == "unspent"

\* values of the outputs of transaction t, by output index 0, 1, ...
TxValues(t) ==
  CASE t = "r" -> <<1, 1>>
    [] t = "a" -> <<1, 0>>
    [] t = "b" -> <<1>>
    [] t = "c" -> <<1>>
    [] OTHER   -> <<0>>

\* TransactionInfo as returned by getTransaction: txid and vout[] of {n, value}
TransactionInfo(t) ==
  [txid |-> t,
   vout |-> [i \in 1..Len(TxValues(t)) |-> [n |-> i - 1, value |-> TxValues(t)[i]]]]

\* the answers getSpentStatus may give for an output: null or a spending txid
SpentAnswers == TxIds \cup {Unspent}

\* ---------------------------------------------------------------- state
VARIABLES
  status,            \* this.status
  queue,             \* this.queue
  nodes,             \* this.graphData.nodes
  edges,             \* this.graphData.edges
  stats,             \* this.graphData.stats
  processedOutputs,  \* this.processedOutputs
  txCache,           \* this.txCache
  minValueBSV,       \* this.minValueBSV
  maxDepth,          \* this.maxDepth
  lastEmit,          \* status carried by the latest onUpdate call
  pc,                \* per coroutine: where it is suspended
  cur,               \* per coroutine: the work item of its pending processOutput
  spentInfo,         \* per coroutine: the spending txid being fetched
  spentCalls,        \* provider: number of getSpentStatus calls per output
  txCalls,           \* provider: number of getTransaction calls per txid
  ui,                \* the consumer of the updates: TxGraph's state and refs
  mk,                \* the Merkle tree visualizer: its input, trees and proofs
  gs,                \* one call of WhatsOnChainService.getSpentStatus
  bv,                \* one call of WhatsOnChainService.validateBumpData
  rd,                \* one run of ClarityProvider's transaction parser
  rq,                \* the global RequestQueue and its callers' promises
  px,                \* the API proxy: lastRequestTime and its POST handlers
  mp,                \* one call of WhatsOnChainService.validateMerklePath
  bf,                \* the BEEF parser page: parsedBEEF and its validations
  nt                 \* the GraphTraversal instance of a second handleStart

vars == <<status, queue, nodes, edges, stats, processedOutputs, txCache,
          minValueBSV, maxDepth, lastEmit, pc, cur, spentInfo, spentCalls, txCalls,
          ui, mk, gs, bv, rd,
                 rq, px, mp, bf, nt>>

\* coroutine 0 is the startTraversal call, the others are processQueue calls
\* made by resume()
Main == 0
Threads == 0..MaxLoops

NoItem == [txid |-> "", parentTxid |-> "", vout |-> 0, level |-> 0, value |-> 0]

OutputKeys == {<<t, i - 1>> : t \in WideTxIds, i \in 1..2}

\* ---------------------------------------------------------------- helpers
\* node ids: a txid, `${txid}:${vout}` or `${txid}:fee`
TxNodeId(t) == [txid |-> t, sfx |-> ""]
UtxoId(t, n) == [txid |-> t, sfx |-> ToString(n)]
FeeId(t) == [txid |-> t, sfx |-> "fee"]

\* `${item.txid}:${item.vout}`
OutputKey(item) == <<item.txid, item.vout>>

RECURSIVE SumValues(_)
SumValues(vout) ==
  IF vout = <<>> THEN 0 ELSE Head(vout).value + SumValues(Tail(vout))

Max(a, b) == IF a > b THEN a ELSE b

createEmptyStats ==
  [totalNodes |-> 0, totalUTXOs |-> 0, totalFeeConsumed |-> 0, maxDepth |-> 0,
   totalValue |-> 0, apiCallsCount |-> 0, queueSize |-> 0, errors |-> 0]

createNode(tx, level, type) ==
  [txid |-> TxNodeId(tx.txid), level |-> level, type |-> type,
   outputs |-> [i \in 1..Len(tx.vout) |->
                  [vout |-> tx.vout[i].n, value |-> tx.vout[i].value,
                   isSpent |-> FALSE, spentBy |-> ""]],
   totalValue |-> SumValues(tx.vout), visited |-> FALSE]

\* the engine's fields as one record, so that the steps of a handler compose
Eng ==
  [status |-> status, queue |-> queue, nodes |-> nodes, edges |-> edges,
   stats |-> stats, processedOutputs |-> processedOutputs, txCache |-> txCache,
   lastEmit |-> lastEmit, spentCalls |-> spentCalls, txCalls |-> txCalls,
   ui |-> ui]

updateStats(e) == [e EXCEPT !.stats.queueSize = Len(e.queue)]

\* ---------------------------------------------------------------- consumer
\* The component TxGraph, whose handleUpdate is the onUpdate callback of the
\* traversal it creates.  An optional value (null or a value) is a sequence of
\* length 0 or 1.  `elapsed` tells whether 100 ms have passed since
\* lastUpdateTimeRef; `emitted` is the latest call of handleUpdate.
NoConsumer ==
  [attached |-> FALSE, graphData |-> <<>>, status |-> "idle", elapsed |-> TRUE,
   pendingUpdate |-> <<>>, updateTimeout |-> FALSE, emitted |-> <<>>]

\* TxGraph lines 25-35: the component's initial state and refs
TxGraphInit == [NoConsumer EXCEPT !.attached = TRUE]

\* a throttle without exemption for the terminal statuses
ShouldUpdateThrottledOnly(u, newStatus) == u.elapsed

\* handleUpdate lines 84-88
ShouldUpdateImmediately(u, newStatus) ==
  \/ newStatus \in {"completed", "error", "stopped"}
  \/ u.elapsed

\* a deferred update that keeps the first pending snapshot
StorePendingKeepsFirst(u, update) ==
  IF u.pendingUpdate = <<>> THEN <<update>> ELSE u.pendingUpdate

\* handleUpdate line 107: the pending update is replaced
StorePending(u, update) == <<update>>

\* handleUpdate lines 69-125; the clone of lines 73-80 copies the node map,
\* the edge list and the stats
handleUpdate(u, data, newStatus) ==
  IF ~u.attached
  THEN u
  ELSE LET clonedData == [nodes |-> data.nodes, edges |-> data.edges,
                          stats |-> data.stats]
           update == [data |-> clonedData, status |-> newStatus]
       IN IF ShouldUpdateImmediately(u, newStatus)
          THEN [u EXCEPT !.updateTimeout = FALSE,
                         !.graphData = <<clonedData>>,
                         !.status = newStatus,
                         !.elapsed = FALSE,
                         !.pendingUpdate = <<>>,
                         !.emitted = <<update>>]
          ELSE [u EXCEPT !.pendingUpdate = StorePending(u, update),
                         !.updateTimeout = TRUE,
                         !.emitted = <<update>>]

\* handleUpdate lines 112-123: the callback of the timer
timeoutCallback(u) ==
  IF u.pendingUpdate # <<>>
  THEN [u EXCEPT !.updateTimeout = FALSE,
                 !.graphData = <<u.pendingUpdate[1].data>>,
                 !.status = u.pendingUpdate[1].status,
                 !.elapsed = FALSE,
                 !.pendingUpdate = <<>>]
  ELSE [u EXCEPT !.updateTimeout = FALSE]

\* this.onUpdate(this.graphData, this.status)
onUpdate(e) ==
  [e EXCEPT !.lastEmit = e.status,
            !.ui = handleUpdate(e.ui, [nodes |-> e.nodes, edges |-> e.edges,
                                       stats |-> e.stats], e.status)]

\* the enqueue loops without the value threshold test
EnqueueOutputsUnfiltered(q, tx, level) ==
  q \o [i \in 1..Len(tx.vout) |->
         [txid |-> tx.txid, parentTxid |-> tx.txid, vout |-> tx.vout[i].n,
          level |-> level, value |-> tx.vout[i].value]]

\* the enqueue loops of startTraversal and processOutput: every output of tx
\* that passes the value threshold, in vout order
EnqueueOutputs(q, tx, level) ==
  LET items == [i \in 1..Len(tx.vout) |->
                  [txid |-> tx.txid, parentTxid |-> tx.txid, vout |-> tx.vout[i].n,
                   level |-> level, value |-> tx.vout[i].value]]
      keep(it) == ~(minValueBSV > 0 /\ it.value < minValueBSV)
  IN q \o SelectSeq(items, keep)

\* ---------------------------------------------------------------- engine
\* what a coroutine step yields: the engine after it and the coroutine's new
\* suspension point
Step(e, p, item, sp) == [e |-> e, pc |-> p, cur |-> item, sp |-> sp]

\* processQueue without the processedOutputs test: nothing is skipped
SkipNothing(q, done) == q

\* processQueue lines 124-128: items whose output was already processed are
\* dequeued and skipped
RECURSIVE SkipProcessed(_, _)
SkipProcessed(q, done) ==
  IF q # <<>> /\ OutputKey(Head(q)) \in done
  THEN SkipProcessed(Tail(q), done)
  ELSE q

\* the processing loop has ended.  In startTraversal the code after
\* `await this.processQueue()` runs (lines 101-104); a loop started by resume()
\* just ends.
LoopExit(e, t) ==
  IF t = Main
  THEN Step(onUpdate(updateStats([e EXCEPT !.status = "completed"])), "done", NoItem, "")
  ELSE Step(e, "free", NoItem, "")

\* processQueue from the loop test to the first await of processOutput:
\* dequeue, skip duplicates, mark the output processed, and call
\* getSpentStatus (processOutput lines 150-155)
processQueue(e, t) ==
  IF e.status # "running"
  THEN LoopExit(e, t)
  ELSE LET q == SkipProcessed(e.queue, e.processedOutputs) IN
       IF q = <<>>
       THEN LoopExit([e EXCEPT !.queue = <<>>], t)
       ELSE LET item == Head(q)
                key == OutputKey(item)
            IN Step([e EXCEPT !.queue = Tail(q),
                              !.processedOutputs = @ \cup {key},
                              !.spentCalls[key] = @ + 1],
                    "awaitSpent", item, "")

\* processQueue lines 134-136: processOutput returned normally
ItemDone(e, t) == processQueue(onUpdate(updateStats(e)), t)

\* processQueue without its try/catch: the exception ends the loop; in
\* startTraversal it reaches the outer catch, in a loop started by resume()
\* it is an unhandled rejection
ItemFailedUncaught(e, t) ==
  IF t = Main
  THEN Step(onUpdate([e EXCEPT !.status = "error", !.stats.errors = @ + 1]), "done", NoItem, "")
  ELSE Step(e, "free", NoItem, "")

\* processQueue whose catch block marks the traversal failed
ItemFailedSetsError(e, t) ==
  Step(onUpdate([e EXCEPT !.status = "error", !.stats.errors = @ + 1]),
       IF t = Main THEN "done" ELSE "free", NoItem, "")

\* processQueue lines 137-144: processOutput threw
ItemFailed(e, t) == processQueue([e EXCEPT !.stats.errors = @ + 1], t)

\* a handler that adds the edge of an unspent output but not its node
handleUTXOEdgeOnly(e, item) ==
  [e EXCEPT
     !.stats.totalUTXOs = @ + 1,
     !.edges = Append(@, [from |-> TxNodeId(item.parentTxid),
                          to |-> UtxoId(item.txid, item.vout),
                          vout |-> item.vout, value |-> item.value,
                          type |-> "utxo"])]

handleUTXO(e, item) ==
  LET utxoId == UtxoId(item.txid, item.vout)
      utxoNode == [txid |-> utxoId, level |-> item.level + 1, type |-> "utxo",
                   outputs |-> <<>>, totalValue |-> item.value, visited |-> TRUE]
  IN [e EXCEPT
        !.nodes = [k \in DOMAIN e.nodes \cup {utxoId} |->
                     IF k = utxoId THEN utxoNode ELSE e.nodes[k]],
        !.stats.totalNodes = @ + 1,
        !.stats.totalUTXOs = @ + 1,
        !.stats.maxDepth = Max(@, item.level + 1),
        !.edges = Append(@, [from |-> TxNodeId(item.parentTxid), to |-> utxoId,
                             vout |-> item.vout, value |-> item.value,
                             type |-> "utxo"])]

handleFeeConsumed(e, item, tx, fee) ==
  LET feeId == FeeId(tx.txid)
      feeNode == [txid |-> feeId, level |-> item.level + 1, type |-> "fee-consumed",
                  outputs |-> <<>>, totalValue |-> fee, visited |-> TRUE]
  IN [e EXCEPT
        !.nodes = [k \in DOMAIN e.nodes \cup {feeId} |->
                     IF k = feeId THEN feeNode ELSE e.nodes[k]],
        !.stats.totalNodes = @ + 1,
        !.stats.totalFeeConsumed = @ + fee,
        !.stats.maxDepth = Max(@, item.level + 1),
        !.edges = Append(@, [from |-> TxNodeId(item.parentTxid), to |-> feeId,
                             vout |-> item.vout, value |-> fee, type |-> "fee"])]

\* the depth test off by one
DepthLimitReachedLate(item) == maxDepth > 0 /\ item.level + 1 > maxDepth

\* processOutput line 234: the depth limit stops the expansion below item
DepthLimitReached(item) == maxDepth > 0 /\ item.level + 1 >= maxDepth

\* processOutput lines 192-252: the spending transaction is at hand
processSpendingTx(e, t, item, spendingTx) ==
  IF e.status # "running"
  THEN ItemDone(e, t)
  ELSE IF SumValues(spendingTx.vout) = 0
  THEN ItemDone(handleFeeConsumed(e, item, spendingTx, item.value), t)
  ELSE LET childId == TxNodeId(spendingTx.txid)
           e1 == IF childId \in DOMAIN e.nodes
                 THEN e
                 ELSE [e EXCEPT
                         !.nodes = [k \in DOMAIN e.nodes \cup {childId} |->
                                      IF k = childId
                                      THEN createNode(spendingTx, item.level + 1, "intermediate")
                                      ELSE e.nodes[k]],
                         !.stats.totalNodes = @ + 1,
                         !.stats.maxDepth = Max(@, item.level + 1)]
           e2 == [e1 EXCEPT
                    !.edges = Append(@, [from |-> TxNodeId(item.parentTxid), to |-> childId,
                                         vout |-> item.vout, value |-> item.value,
                                         type |-> "spending"])]
       IN IF DepthLimitReached(item)
          THEN ItemDone(e2, t)
          ELSE ItemDone([e2 EXCEPT !.queue = EnqueueOutputs(@, spendingTx, item.level + 1)], t)

\* processOutput without the status tests that follow getSpentStatus
RunningAfterSpentUnchecked(e) == TRUE

\* processOutput lines 159 and 185: the status tests between the return of
\* getSpentStatus and the fetch of the spending transaction
RunningAfterSpent(e) == e.status = "running"

\* processOutput lines 169-176: record the answer in the parent's output
MarkOutput(outputs, vout, answer) ==
  [i \in 1..Len(outputs) |->
     IF outputs[i].vout = vout
     THEN [outputs[i] EXCEPT !.isSpent = (answer # Unspent),
                             !.spentBy = IF answer # Unspent THEN answer ELSE @]
     ELSE outputs[i]]

\* processOutput lines 156-190: getSpentStatus returned `answer`
processSpentInfo(e, t, item, answer) ==
  LET e0 == [e EXCEPT !.stats.apiCallsCount = @ + 1]
      parentId == TxNodeId(item.parentTxid)
  IN IF ~RunningAfterSpent(e0)
     THEN ItemDone(e0, t)
     ELSE IF parentId \notin DOMAIN e0.nodes
     THEN ItemDone(e0, t)
     ELSE LET e1 == [e0 EXCEPT !.nodes[parentId].outputs = MarkOutput(@, item.vout, answer)]
          IN IF answer = Unspent
             THEN ItemDone(handleUTXO(e1, item), t)
             ELSE IF answer \in DOMAIN e1.txCache
             THEN processSpendingTx(e1, t, item, e1.txCache[answer])
             ELSE Step([e1 EXCEPT !.txCalls[answer] = @ + 1], "awaitTx", item, answer)

\* getTransactionCached lines 330-333 followed by the rest of processOutput
processFetchedTx(e, t, item, tx) ==
  LET e0 == [e EXCEPT !.stats.apiCallsCount = @ + 1,
                      !.txCache = [k \in DOMAIN e.txCache \cup {tx.txid} |->
                                     IF k = tx.txid THEN tx ELSE e.txCache[k]]]
  IN processSpendingTx(e0, t, item, tx)

\* startTraversal lines 72-99: the root transaction arrived
processRootTx(e, rootTx) ==
  LET rootId == TxNodeId(rootTx.txid)
      e0 == [e EXCEPT !.stats.apiCallsCount = @ + 1,
                      !.txCache = [k \in DOMAIN e.txCache \cup {rootTx.txid} |->
                                     IF k = rootTx.txid THEN rootTx ELSE e.txCache[k]]]
      e1 == [e0 EXCEPT
               !.nodes = [k \in DOMAIN e0.nodes \cup {rootId} |->
                            IF k = rootId THEN createNode(rootTx, 0, "root") ELSE e0.nodes[k]],
               !.stats.totalNodes = @ + 1,
               !.queue = EnqueueOutputs(@, rootTx, 0)]
  IN processQueue(onUpdate(updateStats(e1)), Main)

\* startTraversal lines 105-110: the root fetch threw
rootFetchFailed(e) ==
  Step(onUpdate([e EXCEPT !.status = "error", !.stats.errors = @ + 1]), "done", NoItem, "")

\* ---------------------------------------------------------------- Merkle
\* The Merkle tree visualizer, in its two versions: MerkleTreeVisualizer.tsx
\* and the later one of part_002 (names ending in 2), and calculateMerkleRoot
\* of the Merkle guide (part_000).  Strings of data and hashes are terms in
\* prefix notation, sequences of integers: a typed item d is <<d>>, the id of
\* the block transaction d is <<-2, d>>, hashData(x) is 0 followed by x and
\* the double SHA-256 of a pair is -1 followed by the two hashes, so two
\* hashes are equal only if they were computed from the same data in the
\* same way.
ItemText(d) == <<d>>

\* the id of a transaction of a block: a double SHA-256, by the provider
BlockTxid(d) == <<-2, d>>

hashData(data) == <<0>> \o data

hashBinary(leftHash, rightHash) == <<-1>> \o leftHash \o rightHash

Reverse(s) == [i \in 1..Len(s) |-> s[Len(s) + 1 - i]]

\* the leaf nodes both buildMerkleTree functions start from; an absent child
\* is <<>>, a present one <<node>>
LeafNodes(dataItems) ==
  [i \in 1..Len(dataItems) |->
     [id |-> "leaf-" \o ToString(i - 1), hash |-> hashData(dataItems[i]),
      level |-> 0, position |-> i - 1, isLeaf |-> TRUE,
      left |-> <<>>, right |-> <<>>]]

\* MerkleTreeVisualizer.tsx lines 130-153: one pass of the while loop; the
\* last node of an odd level is paired with itself and has no right child
NextLevel(currentLevel, level) ==
  [k \in 1..((Len(currentLevel) + 1) \div 2) |->
     LET left == currentLevel[2 * k - 1]
         paired == 2 * k <= Len(currentLevel)
         right == IF paired THEN currentLevel[2 * k] ELSE left
     IN [id |-> "node-" \o ToString(level) \o "-" \o ToString(k - 1),
         hash |-> hashBinary(left.hash, right.hash),
         level |-> level, position |-> k - 1, isLeaf |-> FALSE,
         left |-> <<left>>, right |-> IF paired THEN <<right>> ELSE <<>>]]

RECURSIVE BuildLevels(_, _)
BuildLevels(currentLevel, level) ==
  IF Len(currentLevel) > 1
  THEN BuildLevels(NextLevel(currentLevel, level), level + 1)
  ELSE currentLevel[1]

\* a builder that hashes at least one level, pairing a single leaf with itself
buildMerkleTreeSelfPaired(dataItems) ==
  BuildLevels(NextLevel(LeafNodes(dataItems), 1), 2)

\* MerkleTreeVisualizer.tsx lines 113-159 (dataItems is not empty)
buildMerkleTree(dataItems) == BuildLevels(LeafNodes(dataItems), 1)

\* part_002 lines 110-118: an odd level gets a copy of its last node under a
\* new id
PadLevel2(currentLevel, level) ==
  IF Len(currentLevel) % 2 = 1
  THEN LET lastNode == currentLevel[Len(currentLevel)]
       IN Append(currentLevel,
                 [lastNode EXCEPT !.id = @ \o "-dup-level-" \o ToString(level)])
  ELSE currentLevel

\* part_002 lines 120-136
NextLevel2(currentLevel, level) ==
  LET padded == PadLevel2(currentLevel, level)
  IN [k \in 1..(Len(padded) \div 2) |->
        LET left == padded[2 * k - 1]
            right == padded[2 * k]
        IN [id |-> "node-" \o ToString(level) \o "-" \o ToString(k - 1),
            hash |-> hashBinary(left.hash, right.hash),
            level |-> level, position |-> k - 1, isLeaf |-> FALSE,
            left |-> <<left>>,
            right |-> IF right.id # left.id THEN <<right>> ELSE <<>>]]

RECURSIVE BuildLevels2(_, _)
BuildLevels2(currentLevel, level) ==
  IF Len(currentLevel) > 1
  THEN BuildLevels2(NextLevel2(currentLevel, level), level + 1)
  ELSE currentLevel[1]

\* part_002 lines 90-140
buildMerkleTree2(dataItems) == BuildLevels2(LeafNodes(dataItems), 1)

\* an odd level padded with its first element
DuplicateFirst(currentLevel) ==
  IF Len(currentLevel) % 2 = 1
  THEN Append(currentLevel, currentLevel[1])
  ELSE currentLevel

\* part_000 lines 128-130 and part_002 lines 157-159: an odd level is padded
\* with its last element
DuplicateLast(currentLevel) ==
  IF Len(currentLevel) % 2 = 1
  THEN Append(currentLevel, currentLevel[Len(currentLevel)])
  ELSE currentLevel

\* part_000 lines 133-135 and part_002 lines 167-173: hash the pairs
HashPairs(currentLevel) ==
  [k \in 1..(Len(currentLevel) \div 2) |->
     hashBinary(currentLevel[2 * k - 1], currentLevel[2 * k])]

\* part_000 lines 113-141
RECURSIVE calculateMerkleRoot(_)
calculateMerkleRoot(txids) ==
  IF Len(txids) = 1
  THEN txids[1]
  ELSE calculateMerkleRoot(HashPairs(DuplicateLast(txids)))

\* part_002 lines 145-180: the sibling hashes of targetIndex, leaf level first
RECURSIVE calculateMerklePath(_, _)
calculateMerklePath(txids, targetIndex) ==
  IF Len(txids) > 1
  THEN LET currentLevel == DuplicateLast(txids)
           siblingIndex == IF targetIndex % 2 = 0 THEN targetIndex + 1
                           ELSE targetIndex - 1
       IN <<currentLevel[siblingIndex + 1]>>
            \o calculateMerklePath(HashPairs(currentLevel), targetIndex \div 2)
  ELSE <<>>

\* findLeafIndex (MerkleTreeVisualizer.tsx lines 169-181), findLeafNode and
\* findLeafPosition (part_002 lines 184-196 and 346-358): the position of the
\* first leaf with the given id in depth-first order, -1 if there is none
RECURSIVE findLeafIndex(_, _)
findLeafIndex(node, targetLeafId) ==
  IF node.isLeaf
  THEN IF node.id = targetLeafId THEN node.position ELSE -1
  ELSE LET leftIndex == IF node.left # <<>>
                        THEN findLeafIndex(node.left[1], targetLeafId) ELSE -1
       IN IF leftIndex # -1
          THEN leftIndex
          ELSE IF node.right # <<>>
               THEN findLeafIndex(node.right[1], targetLeafId) ELSE -1

\* MerkleTreeVisualizer.tsx lines 186-225: the steps pushed while the target
\* is looked for below node; none if it is not there
RECURSIVE traverse(_, _, _)
traverse(node, targetId, nodeIndex) ==
  IF node.isLeaf
  THEN IF node.id = targetId
       THEN <<[hash |-> node.hash,
               position |-> IF nodeIndex % 2 = 0 THEN "left" ELSE "right",
               isTarget |-> TRUE]>>
       ELSE <<>>
  ELSE LET inLeft == IF node.left # <<>>
                     THEN traverse(node.left[1], targetId, nodeIndex * 2) ELSE <<>>
           inRight == IF inLeft = <<>> /\ node.right # <<>>
                      THEN traverse(node.right[1], targetId, nodeIndex * 2 + 1)
                      ELSE <<>>
       IN IF inLeft # <<>>
          THEN IF node.right # <<>>
               THEN Append(inLeft, [hash |-> node.right[1].hash,
                                    position |-> "right", isTarget |-> FALSE])
               ELSE inLeft
          ELSE IF inRight # <<>>
          THEN IF node.left # <<>>
               THEN Append(inRight, [hash |-> node.left[1].hash,
                                     position |-> "left", isTarget |-> FALSE])
               ELSE inRight
          ELSE <<>>

\* MerkleTreeVisualizer.tsx lines 164-229
findMerklePath(tree, targetLeafId) ==
  LET currentIndex == findLeafIndex(tree, targetLeafId)
  IN IF currentIndex = -1
     THEN <<>>
     ELSE Reverse(traverse(tree, targetLeafId, currentIndex))

\* MerkleTreeVisualizer.tsx lines 346-385: the result of the last proof step
RECURSIVE calculateMerkleProofSteps(_, _)
calculateMerkleProofSteps(currentHash, path) ==
  IF path = <<>>
  THEN currentHash
  ELSE LET step == Head(path)
       IN IF step.isTarget
          THEN calculateMerkleProofSteps(currentHash, Tail(path))
          ELSE calculateMerkleProofSteps(
                 hashBinary(IF step.position = "left" THEN step.hash ELSE currentHash,
                            IF step.position = "right" THEN step.hash ELSE currentHash),
                 Tail(path))

\* part_002 lines 199-208: the hashes of all leaves below node, left to right
RECURSIVE collectLeaves(_)
collectLeaves(node) ==
  IF node.isLeaf
  THEN <<node.hash>>
  ELSE (IF node.left # <<>> THEN collectLeaves(node.left[1]) ELSE <<>>)
         \o (IF node.right # <<>> THEN collectLeaves(node.right[1]) ELSE <<>>)

\* the hash of the first leaf with the given id (findLeafNode of part_002)
RECURSIVE leafHash(_, _)
leafHash(node, targetLeafId) ==
  IF node.isLeaf
  THEN IF node.id = targetLeafId THEN <<node.hash>> ELSE <<>>
  ELSE LET inLeft == IF node.left # <<>>
                     THEN leafHash(node.left[1], targetLeafId) ELSE <<>>
       IN IF inLeft # <<>>
          THEN inLeft
          ELSE IF node.right # <<>>
               THEN leafHash(node.right[1], targetLeafId) ELSE <<>>

\* part_002 lines 182-237
findMerklePath2(tree, targetLeafId) ==
  LET targetIndex == findLeafIndex(tree, targetLeafId)
  IN IF targetIndex = -1
     THEN <<>>
     ELSE LET siblingHashes == calculateMerklePath(collectLeaves(tree), targetIndex)
          IN <<[hash |-> leafHash(tree, targetLeafId)[1], position |-> "left",
                isTarget |-> TRUE]>>
               \o [i \in 1..Len(siblingHashes) |->
                     [hash |-> siblingHashes[i], position |-> "right",
                      isTarget |-> FALSE]]

\* part_002 lines 363-397: the loop over the path, the sibling on the right
\* when the running index is even, on the left when it is odd
RECURSIVE FoldByParity(_, _, _)
FoldByParity(currentHash, path, currentIndex) ==
  IF path = <<>>
  THEN currentHash
  ELSE LET step == Head(path)
       IN IF step.isTarget
          THEN FoldByParity(currentHash, Tail(path), currentIndex)
          ELSE FoldByParity(
                 IF currentIndex % 2 = 0
                 THEN hashBinary(currentHash, step.hash)
                 ELSE hashBinary(step.hash, currentHash),
                 Tail(path), currentIndex \div 2)

\* part_002 lines 339-402: the result of the last proof step
calculateMerkleProofSteps2(targetLeafHash, path, targetLeafId, tree) ==
  FoldByParity(targetLeafHash, path, findLeafIndex(tree, targetLeafId))

\* the visualizer before any input, and the value of mk where it is not used
NoVisualizer ==
  [phase |-> "none", source |-> "", dataItems |-> <<>>, tree |-> <<>>,
   tree2 |-> <<>>, root |-> <<>>, selectedLeaf |-> "", merklePath |-> <<>>, merklePath2 |-> <<>>,
   proof |-> <<>>, proof2 |-> <<>>]

\* handleDataInput (MerkleTreeVisualizer.tsx lines 259-272) in both versions,
\* and the guide's calculateMerkleRoot on the same leaf hashes
Built(source, dataItems, phase) ==
  [NoVisualizer EXCEPT
     !.phase = phase,
     !.source = source,
     !.dataItems = dataItems,
     !.tree = <<buildMerkleTree(dataItems)>>,
     !.tree2 = <<buildMerkleTree2(dataItems)>>,
     !.root = <<calculateMerkleRoot([i \in 1..Len(dataItems) |->
                                       hashData(dataItems[i])])>>]

\* ---------------------------------------------------------------- service
\* WhatsOnChainService.getSpentStatus: one call, the responses its requests
\* got so far, and how it ended.  A response is the HTTP status the proxy
\* passes on ("200" with the spending transaction), or "other" for any other
\* failure of the request.
maxRetries == 3

Responses == {"200", "404", "400", "429", "other"}

NoCall == [state |-> "idle", attempt |-> 0, responses |-> <<>>, result |-> ""]

NoValidation == [state |-> "idle"]

NoParse == [state |-> "idle"]

\* ------------------------------------------------- parseTransactionDetails
\* hexBytes is a sequence of bytes; offset counts from 0 as in the source.

Min(a, b) == IF a < b THEN a ELSE b

\* hexBytes[i]: <<>> is undefined
Byte(hexBytes, i) ==
  IF i >= 0 /\ i < Len(hexBytes) THEN <<hexBytes[i + 1]>> ELSE <<>>

\* an operand of | or <<: undefined converts to 0
ToInt(b) == IF b = <<>> THEN 0 ELSE b[1]

\* b << 24 on 32-bit signed integers
ShiftLeft24(b) == IF b >= 128 THEN (b - 256) * 16777216 ELSE b * 16777216

\* Uint8Array.prototype.slice(start, end): a negative index counts from the
\* end, both are clamped to the array
slice(hexBytes, start, end) ==
  LET rel(k) == IF k < 0 THEN Max(Len(hexBytes) + k, 0) ELSE Min(k, Len(hexBytes))
  IN IF rel(end) > rel(start)
     THEN SubSeq(hexBytes, rel(start) + 1, rel(end))
     ELSE <<>>

\* readBytes lines 342-346; the bytes read are left in p.bytes
readBytes(p, length) ==
  [p EXCEPT !.bytes = slice(p.hexBytes, p.offset, p.offset + length),
            !.offset = @ + length]

VarInt(p, value, length) ==
  [p EXCEPT !.offset = @ + length,
            !.vi = [value |-> value, length |-> length],
            !.varints = Append(@, [at |-> p.offset, value |-> value, length |-> length])]

\* readVarInt lines 349-369; the bit-ors are sums, the operands' bits being
\* disjoint
readVarInt(p) ==
  LET first == Byte(p.hexBytes, p.offset)
      b(i) == ToInt(Byte(p.hexBytes, p.offset + i))
  IN IF first # <<>> /\ first[1] < 253
     THEN VarInt(p, first[1], 1)
     ELSE IF first = <<253>>
     THEN VarInt(p, b(1) + b(2) * 256, 3)
     ELSE IF first = <<254>>
     THEN VarInt(p, b(1) + b(2) * 256 + b(3) * 65536 + ShiftLeft24(b(4)), 5)
     ELSE [p EXCEPT !.state = "thrown"]

\* lines 381-400: one iteration of the input loop
ReadInput(p) ==
  LET txHashBuf == readBytes(p, 32)
      txOutNum == readBytes(txHashBuf, 4)
      scriptVi == readVarInt(txOutNum)
  IN IF scriptVi.state = "thrown"
     THEN scriptVi
     ELSE LET script == readBytes(scriptVi, scriptVi.vi.value)
              nSequence == readBytes(script, 4)
          IN [nSequence EXCEPT !.inputs =
                Append(@, [txHashBuf |-> txHashBuf.bytes,
                           txOutNum |-> txOutNum.bytes,
                           scriptViLength |-> scriptVi.vi.length,
                           script |-> script.bytes,
                           scriptLength |-> scriptVi.vi.value,
                           nSequence |-> nSequence.bytes,
                           totalLength |-> 32 + 4 + scriptVi.vi.length
                                           + scriptVi.vi.value + 4])]

\* line 380: for (let i = 0; i < txInsVi.value; i++)
RECURSIVE ReadInputs(_, _, _)
ReadInputs(p, i, n) ==
  IF p.state = "thrown" \/ ~(i < n)
  THEN p
  ELSE ReadInputs(ReadInput(p), i + 1, n)

\* lines 408-418 and 439-453: the output loop from its test up to the next
\* await of crypto.subtle.digest, or the lock time and the return
ReadOutputs(p) ==
  IF p.i < p.txOuts
  THEN LET valueBn == readBytes(p, 8)
           scriptVi == readVarInt(valueBn)
       IN IF scriptVi.state = "thrown"
          THEN scriptVi
          ELSE LET script == readBytes(scriptVi, scriptVi.vi.value)
               IN [script EXCEPT !.state = "digest",
                                 !.pending = <<[valueBn |-> valueBn.bytes,
                                                scriptViLength |-> scriptVi.vi.length,
                                                script |-> script.bytes,
                                                scriptLength |-> scriptVi.vi.value,
                                                totalLength |-> 8 + scriptVi.vi.length
                                                                + scriptVi.vi.value]>>]
  ELSE LET nLockTime == readBytes(p, 4)
       IN [nLockTime EXCEPT !.state = "returned", !.nLockTime = nLockTime.bytes]

\* lines 372-404: the version, the input count, the inputs and the output
\* count, then the output loop
ParseFromStart(p) ==
  LET version == readBytes(p, 4)
      txInsVi == readVarInt(version)
  IN IF txInsVi.state = "thrown"
     THEN txInsVi
     ELSE LET ins == ReadInputs(txInsVi, 0, txInsVi.vi.value)
          IN IF ins.state = "thrown"
             THEN ins
             ELSE LET txOutsVi == readVarInt(ins)
                  IN IF txOutsVi.state = "thrown"
                     THEN txOutsVi
                     ELSE ReadOutputs([txOutsVi EXCEPT !.version = version.bytes,
                                                       !.txOuts = txOutsVi.vi.value])

\* lines 419-436: the digest settled, the output is pushed and the loop goes on
PushOutput(p, tokenScriptHash) ==
  ReadOutputs([p EXCEPT !.outputs = Append(@, [out |-> p.pending[1],
                                                tokenScriptHash |-> tokenScriptHash]),
                        !.pending = <<>>,
                        !.i = @ + 1])

\* line 338-339: the state of a call before its first read
ParseCalled(hexBytes) ==
  [state |-> "called", hexBytes |-> hexBytes, offset |-> 0, bytes |-> <<>>,
   vi |-> [value |-> 0, length |-> 0], varints |-> <<>>, version |-> <<>>,
   inputs |-> <<>>, txOuts |-> 0, i |-> 0, pending |-> <<>>, outputs |-> <<>>,
   nLockTime |-> <<>>]

\* serialised transactions
Fill(n, b) == [k \in 1..n |-> b]

RECURSIVE Repeat(_, _)
Repeat(bytes, n) == IF n = 0 THEN <<>> ELSE bytes \o Repeat(bytes, n - 1)

SerialisedInput(scriptLength) ==
  Fill(32, 170) \o <<0, 0, 0, 0>> \o <<scriptLength>> \o Fill(scriptLength, 81)
    \o <<255, 255, 255, 255>>

SerialisedOutput(scriptLength) ==
  <<232, 3, 0, 0, 0, 0, 0, 0>> \o <<scriptLength>> \o Fill(scriptLength, 106)

\* the encodings of a count n: one byte, 0xFD and two bytes, 0xFE and four
\* bytes (also with the top bit of the last byte set), 0xFF and eight bytes
CountEncodings(n) ==
  {<<n>>, <<253, n, 0>>, <<254, n, 0, 0, 0>>, <<254, n, 0, 0, 128>>,
   <<255, n, 0, 0, 0, 0, 0, 0, 0>>}

SerialisedTransactions ==
  {<<1, 0, 0, 0>> \o txInsVi \o Repeat(SerialisedInput(scriptLength), ins)
     \o <<outs>> \o Repeat(SerialisedOutput(scriptLength), outs) \o <<0, 0, 0, 0>> :
     <<ins, txInsVi>> \in UNION {{<<n, e>> : e \in CountEncodings(n)} : n \in 0..MaxIns},
     outs \in 0..MaxOuts, scriptLength \in 0..MaxScript}

\* every serialised transaction and every prefix of one
Buffers == UNION {{SubSeq(t, 1, k) : k \in 0..Len(t)} : t \in SerialisedTransactions}

\* the transaction ids validateBumpData is asked about or finds in a block
BumpTxids == {"t1", "t2", "t3"}

\* block.tx.includes(txid) that only looks at the first transaction
includesFirst(tx, txid) == tx # <<>> /\ tx[1] = txid

\* validateBumpData line 460: block.tx.includes(txid)
includes(tx, txid) == \E i \in 1..Len(tx) : tx[i] = txid

\* validateBumpData lines 451-476: the block was fetched
validateBumpDataFetched(txids, block) ==
  LET validTransactions == SelectSeq(txids, LAMBDA t : includes(block.tx, t))
      invalidTransactions == SelectSeq(txids, LAMBDA t : ~includes(block.tx, t))
      isValid == Len(invalidTransactions) = 0
  IN [isValid |-> isValid,
      blockHash |-> <<block.hash>>,
      merkleRoot |-> <<block.merkleroot>>,
      validTransactions |-> validTransactions,
      invalidTransactions |-> invalidTransactions,
      error |-> ~isValid]

\* validateBumpData lines 478-485: the catch block
validateBumpDataFailed(txids) ==
  [isValid |-> FALSE,
   blockHash |-> <<>>,
   merkleRoot |-> <<>>,
   validTransactions |-> <<>>,
   invalidTransactions |-> txids,
   error |-> TRUE]

\* no call of the service or of the parser is modelled
\* ------------------------------------------------------------ RequestQueue
\* Times are in milliseconds.  Date.now() - lastRequestTime is kept instead of
\* the two clocks, and stops growing at the largest delay the queue can ask
\* for, beyond which the loop no longer tells two values apart.
MIN_DELAY == 500

MaxBackoffDelay == 16000

RequestIds == 1..MaxRequests

\* how a request ends: with a result, with an error whose message holds
\* '429', or with another error
Outcomes == {"ok", "429", "failed"}

\* lines 89-94, and nothing enqueued yet; lastRequestTime = 0 is long ago
NewQueue ==
  [state |-> "ready", queue |-> <<>>, processing |-> FALSE,
   timeSinceLastRequest |-> MIN_DELAY + MaxBackoffDelay,
   consecutiveRateLimitErrors |-> 0, currentBackoffDelay |-> 0,
   loops |-> <<>>, enqueued |-> <<>>, started |-> <<>>, outcomes |-> <<>>,
   settled |-> [id \in RequestIds |-> "pending"]]

NoQueue == [NewQueue EXCEPT !.state = "idle"]

RECURSIVE Pow2(_)
Pow2(n) == IF n = 0 THEN 1 ELSE 2 * Pow2(n - 1)

\* lines 144-147: Math.min(Math.pow(2, errors - 1) * 1000, 16000)
BackoffDelay(errors) ==
  IF errors - 1 >= 4 THEN MaxBackoffDelay ELSE Min(Pow2(errors - 1) * 1000, MaxBackoffDelay)

\* the closure pushed by enqueue, lines 98-108, once request() has ended with
\* outcome o: it resets the backoff and resolves, or rejects; the error is
\* not thrown again
Wrapper(r, id, o) ==
  IF o = "ok"
  THEN [threw |-> <<>>,
        q |-> [r EXCEPT !.consecutiveRateLimitErrors = 0,
                        !.currentBackoffDelay = 0,
                        !.settled[id] = "resolved"]]
  ELSE [threw |-> <<>>, q |-> [r EXCEPT !.settled[id] = "rejected"]]

\* lines 139-151: the catch block around `await request()`
AfterRequest(w) ==
  IF w.threw = <<"429">>
  THEN [w.q EXCEPT !.consecutiveRateLimitErrors = @ + 1,
                   !.currentBackoffDelay = BackoffDelay(w.q.consecutiveRateLimitErrors + 1)]
  ELSE w.q

\* a drain loop that ends after one request
LoopContinuesOnce(r, first) == first /\ Len(r.queue) > 0

\* line 121: while (this.queue.length > 0); first tells the entry of the loop
\* from the later tests
LoopContinues(r, first) == Len(r.queue) > 0

WithoutLoop(r, l) ==
  [r EXCEPT !.loops = SubSeq(@, 1, l - 1) \o SubSeq(@, l + 1, Len(@))]

\* lines 134-138: the next request is taken and started; loop l waits for it
StartRequest(r, l) ==
  IF r.queue = <<>>
  THEN [r EXCEPT !.loops[l] = [pc |-> "skip", waitTime |-> 0, request |-> 0]]
  ELSE [r EXCEPT !.queue = Tail(@),
                 !.timeSinceLastRequest = 0,
                 !.started = Append(@, Head(r.queue)),
                 !.loops[l] = [pc |-> "request", waitTime |-> 0,
                               request |-> Head(r.queue)]]

\* lines 121-132 and 155: the test of the while loop and the wait for the
\* spacing, up to the next await of loop l
RECURSIVE LoopTop(_, _, _)
LoopTop(r, l, first) ==
  IF ~LoopContinues(r, first)
  THEN [WithoutLoop(r, l) EXCEPT !.processing = FALSE]
  ELSE LET totalDelay == MIN_DELAY + r.currentBackoffDelay
       IN IF r.timeSinceLastRequest < totalDelay
          THEN [r EXCEPT !.loops[l] =
                  [pc |-> "timer", waitTime |-> totalDelay - r.timeSinceLastRequest,
                   request |-> 0]]
          ELSE LET s == StartRequest(r, l)
               IN IF s.loops[l].pc = "skip" THEN LoopTop(s, l, FALSE) ELSE s

\* processQueue that starts a loop although one is running
NotProcessing(r) == FALSE

\* line 115: this.processing
AlreadyProcessing(r) == r.processing

\* lines 114-121: processQueue up to its first await
processQueueRequests(r) ==
  IF AlreadyProcessing(r) \/ Len(r.queue) = 0
  THEN r
  ELSE LET l == Len(r.loops) + 1
       IN LoopTop([r EXCEPT !.processing = TRUE,
                            !.loops = Append(@, [pc |-> "top", waitTime |-> 0,
                                                 request |-> 0])],
                  l, TRUE)

\* lines 96-112
enqueue(r, id) ==
  processQueueRequests([r EXCEPT !.queue = Append(@, id),
                                 !.enqueued = Append(@, id)])

\* ---------------------------------------------------------------- API proxy
\* route.ts line 11
rateLimitDelay == 350

\* the clock of the proxy advances by half the delay
ProxyClockStep == rateLimitDelay \div 2

PostIds == 1..MaxPosts

NewHandler == [pc |-> "new", valid |-> TRUE, waitTime |-> 0, status |-> 0]

\* route.ts line 10: lastRequestTime = 0 is long ago.  Date.now() -
\* lastRequestTime is kept instead of the two clocks and stops growing at
\* rateLimitDelay; gaps holds the time between each upstream request and the
\* one before it
NewProxy ==
  [state |-> "ready", timeSinceLastRequest |-> rateLimitDelay,
   handlers |-> [h \in PostIds |-> NewHandler],
   sinceUpstream |-> rateLimitDelay, gaps |-> <<>>]

NoProxy == [NewProxy EXCEPT !.state = "idle"]

\* route.ts lines 49-67: the upstream request is issued
Fetch(p, h) ==
  [p EXCEPT !.handlers[h].pc = "fetch",
            !.gaps = Append(@, p.sinceUpstream),
            !.sinceUpstream = 0]

\* route.ts line 22, after the wait or without one
SetLastRequestTime(p) == [p EXCEPT !.timeSinceLastRequest = 0]

\* route.ts lines 13-20: rateLimit up to its await, then lines 22-67
rateLimit(p, h) ==
  IF p.timeSinceLastRequest < rateLimitDelay
  THEN [p EXCEPT !.handlers[h].pc = "timer",
                 !.handlers[h].waitTime = rateLimitDelay - p.timeSinceLastRequest]
  ELSE Fetch(SetLastRequestTime(p), h)

\* route.ts lines 28-47: the body is validated, then rateLimit is called
PostBody(p, h) ==
  IF ~p.handlers[h].valid
  THEN [p EXCEPT !.handlers[h].pc = "done", !.handlers[h].status = 400]
  ELSE rateLimit(p, h)

\* -------------------------------------------------------- validateMerklePath
\* A hex string is the sequence of its bytes.  sha256d is a function that
\* tells any two inputs apart: its value brackets its input.

\* whatsonchain.ts lines 427-430
reverseHex(hex) == Reverse(hex)

\* whatsonchain.ts lines 432-438
sha256d(hex) == <<-1>> \o hex \o <<-3>>

\* the txid of the transaction at offset k of a block, as it is displayed
BumpTxid(k) == <<k + 1, k + 101>>

\* the tree of a block of n transactions: level 0 holds the txids in internal
\* byte order, an odd level pairs its last hash with itself
RECURSIVE BlockLevels(_)
BlockLevels(hashes) ==
  IF Len(hashes) <= 1
  THEN <<hashes>>
  ELSE LET padded == DuplicateLast(hashes)
       IN <<hashes>>
            \o BlockLevels([k \in 1..(Len(padded) \div 2) |->
                              sha256d(padded[2 * k - 1] \o padded[2 * k])])

BlockTree(n) == BlockLevels([k \in 1..n |-> reverseHex(BumpTxid(k - 1))])

\* the merkle root of the block as the provider displays it
BlockMerkleRoot(n) == LET t == BlockTree(n) IN reverseHex(t[Len(t)][1])

Sibling(offset) == IF offset % 2 = 0 THEN offset + 1 ELSE offset - 1

\* the offsets at height h on the paths from the client txids to the root
RECURSIVE Ancestors(_, _)
Ancestors(clients, h) ==
  IF h = 0 THEN clients ELSE {o \div 2 : o \in Ancestors(clients, h - 1)}

\* the nodes a BUMP stores at height h for the offsets from..width, by
\* ascending offset: the client txids, and the siblings that cannot be
\* computed from the level below, flagged as duplicates where the level ends
RECURSIVE BumpNodes(_, _, _, _)
BumpNodes(level, h, clients, from) ==
  IF from > Len(level)
  THEN <<>>
  ELSE LET onPath == from \in Ancestors(clients, h)
           needed == Sibling(from) \in Ancestors(clients, h) /\ ~onPath
           node ==
             IF onPath /\ h = 0
             THEN <<[offset |-> from, hash |-> <<reverseHex(level[from + 1])>>,
                     isDuplicate |-> FALSE, isClientTxid |-> TRUE]>>
             ELSE IF needed /\ from < Len(level)
             THEN <<[offset |-> from, hash |-> <<reverseHex(level[from + 1])>>,
                     isDuplicate |-> FALSE, isClientTxid |-> FALSE]>>
             ELSE IF needed
             THEN <<[offset |-> from, hash |-> <<>>,
                     isDuplicate |-> TRUE, isClientTxid |-> FALSE]>>
             ELSE <<>>
       IN node \o BumpNodes(level, h, clients, from + 1)

\* the merklePath of the BUMP of a block of n transactions for the client
\* txids at the given offsets
BumpPath(n, clients) ==
  LET t == BlockTree(n)
  IN [h \in 1..(Len(t) - 1) |-> BumpNodes(t[h], h - 1, clients, 0)]

\* merklePath without node k of level h
WithoutNode(merklePath, h, k) ==
  [merklePath EXCEPT ![h] = SubSeq(@, 1, k - 1) \o SubSeq(@, k + 1, Len(@))]

\* Array.prototype.find: the first element that passes, or <<>>; passes[k]
\* is the result of the test on element k
find(levelNodes, passes) ==
  LET passing == {k \in DOMAIN levelNodes : passes[k]}
  IN IF passing = {} THEN <<>>
     ELSE <<levelNodes[CHOOSE k \in passing : \A j \in passing : k <= j]>>

\* whatsonchain.ts lines 374-407: the loop from `level` on (levels count from
\* 0); selfPaired collects the levels hashed without a sibling, with the
\* sibling offset that was looked for
RECURSIVE FoldPath(_, _, _, _, _)
FoldPath(merklePath, level, currentHash, currentIndex, selfPaired) ==
  IF ~(level < Len(merklePath))
  THEN [currentHash |-> currentHash, selfPaired |-> selfPaired]
  ELSE LET levelNodes == merklePath[level + 1]
           siblingOffset == Sibling(currentIndex)
           siblingNode == find(levelNodes,
                               [k \in DOMAIN levelNodes |->
                                  levelNodes[k].offset = siblingOffset])
       IN IF Len(levelNodes) = 0
          THEN FoldPath(merklePath, level + 1, currentHash, currentIndex, selfPaired)
          ELSE IF siblingNode = <<>> \/ siblingNode[1].hash = <<>>
          THEN FoldPath(merklePath, level + 1,
                        IF Len(levelNodes) = 1 /\ levelNodes[1].isDuplicate
                        THEN sha256d(currentHash \o currentHash)
                        ELSE sha256d(currentHash \o currentHash),
                        currentIndex \div 2,
                        selfPaired \cup {<<level, siblingOffset>>})
          ELSE LET siblingHash == reverseHex(siblingNode[1].hash[1])
               IN FoldPath(merklePath, level + 1,
                           IF currentIndex % 2 = 0
                           THEN sha256d(currentHash \o siblingHash)
                           ELSE sha256d(siblingHash \o currentHash),
                           currentIndex \div 2, selfPaired)

\* whatsonchain.ts lines 361-371: the index the fold starts from
StartIndex(merklePath) ==
  IF Len(merklePath) > 0
  THEN LET clientTxNode == find(merklePath[1],
                               [k \in DOMAIN merklePath[1] |->
                                  merklePath[1][k].isClientTxid])
       IN IF clientTxNode # <<>> THEN clientTxNode[1].offset ELSE 0
  ELSE 0

\* whatsonchain.ts lines 349-418
validateMerklePath(txid, merkleRoot, merklePath) ==
  LET folded == FoldPath(merklePath, 0, reverseHex(txid), StartIndex(merklePath), {})
      calculatedRoot == reverseHex(folded.currentHash)
      isValid == calculatedRoot = merkleRoot
  IN [isValid |-> isValid, calculatedRoot |-> calculatedRoot,
      error |-> ~isValid, selfPaired |-> folded.selfPaired]

NoPath == [state |-> "idle"]
\* ------------------------------------------------------------- validateBump
\* The BEEF parser page: the React state parsedBEEF and validatingBumps, and
\* per BUMP the call of validateBump that waits for validateBumpData, with
\* the parsedBEEF and the updatedBumps array of its closure.  A validation is
\* <<>> (none) or <<[isValidating, isValid]>>; the other fields of a result
\* are copied with isValid.
BumpIndexes == 1..MaxBumps

NoBumpCall == [pc |-> "idle", updatedBumps |-> <<>>]

\* the page after a BEEF with MaxBumps BUMPs was parsed
ParsedBeef ==
  [state |-> "parsed",
   parsedBEEF |-> [bumps |-> [i \in BumpIndexes |-> <<>>]],
   validatingBumps |-> {},
   calls |-> [i \in BumpIndexes |-> NoBumpCall],
   last |-> [i \in BumpIndexes |-> <<>>]]

NoBeef == [ParsedBeef EXCEPT !.state = "idle"]

\* part_003 lines 1061-1074: updatedBumps is the array the call made when it
\* started
UpdateBumps(b, bumpIndex, validation) ==
  [b.calls[bumpIndex].updatedBumps EXCEPT ![bumpIndex] = validation]

\* part_003 lines 1027-1055: validateBump up to its await
validateBumpStart(b, bumpIndex) ==
  IF bumpIndex \in b.validatingBumps
  THEN b
  ELSE LET updatedBumps ==
             [b.parsedBEEF.bumps EXCEPT
                ![bumpIndex] = <<[isValidating |-> TRUE, isValid |-> FALSE]>>]
       IN [b EXCEPT !.validatingBumps = @ \cup {bumpIndex},
                    !.parsedBEEF.bumps = updatedBumps,
                    !.calls[bumpIndex] = [pc |-> "await", updatedBumps |-> updatedBumps]]

\* part_003 lines 1060-1097: validateBumpData has returned
validateBumpEnd(b, bumpIndex, isValid) ==
  LET validation == <<[isValidating |-> FALSE, isValid |-> isValid]>>
  IN [b EXCEPT !.parsedBEEF.bumps = UpdateBumps(b, bumpIndex, validation),
               !.validatingBumps = @ \ {bumpIndex},
               !.calls[bumpIndex] = NoBumpCall,
               !.last[bumpIndex] = validation]

\* -------------------------------------------------------- second instance
\* The GraphTraversal that a second handleStart creates while the first one
\* is still referenced by its pending calls.  It has its own fields (e) and
\* shares handleUpdate, hence the consumer, with the first.
NewRootTxid == "a"

\* graphTraversal.ts lines 30-39 and 61-68: the fields after the constructor
\* and the reset of startTraversal
NewEngine ==
  [status |-> "running", queue |-> <<>>, nodes |-> <<>>, edges |-> <<>>,
   stats |-> createEmptyStats, processedOutputs |-> {}, txCache |-> <<>>,
   lastEmit |-> "none",
   spentCalls |-> [k \in OutputKeys |-> 0],
   txCalls |-> [t \in WideTxIds |-> IF t = NewRootTxid THEN 1 ELSE 0]]

NotStarted == [state |-> "none", e |-> NewEngine, cur |-> NoItem]

NoInstance == [NotStarted EXCEPT !.state = "idle"]

\* the instance's fields with the shared consumer, as the engine's steps take
\* them
WithConsumer(e, u) ==
  [status |-> e.status, queue |-> e.queue, nodes |-> e.nodes, edges |-> e.edges,
   stats |-> e.stats, processedOutputs |-> e.processedOutputs, txCache |-> e.txCache,
   lastEmit |-> e.lastEmit, spentCalls |-> e.spentCalls, txCalls |-> e.txCalls,
   ui |-> u]

WithoutConsumer(e) ==
  [status |-> e.status, queue |-> e.queue, nodes |-> e.nodes, edges |-> e.edges,
   stats |-> e.stats, processedOutputs |-> e.processedOutputs, txCache |-> e.txCache,
   lastEmit |-> e.lastEmit, spentCalls |-> e.spentCalls, txCalls |-> e.txCalls]


\* the request queue, the proxy, the path validation, the BEEF page and a
\* second traversal instance are not modelled
LaterIdle ==
  rq = NoQueue /\ px = NoProxy /\ mp = NoPath /\ bf = NoBeef /\ nt = NoInstance

ServiceIdle == gs = NoCall /\ bv = NoValidation /\ rd = NoParse /\ LaterIdle

\* the loop's `continue`: the next attempt sends the next request
Retry(g) == [g EXCEPT !.attempt = @ + 1]

Returned(g, result) == [g EXCEPT !.state = "returned", !.result = result]

\* exhausted retries reported as unspent
RetriesExhaustedUnspent(g) == Returned(g, "null")

\* getSpentStatus lines 297 and 308: the error is thrown
RetriesExhausted(g) == [g EXCEPT !.state = "thrown"]

\* a 404 retried like any other error
RetryNotFoundAlways(attempt) == attempt < maxRetries

\* getSpentStatus line 273: only retry once for 404s
RetryNotFound(attempt) == attempt < 1

\* getSpentStatus lines 264-309: what the catch block (or the return of line
\* 266) does with the response to the request of the current attempt
onResponse(g0, r) ==
  LET g == [g0 EXCEPT !.responses = Append(@, r)]
  IN CASE r = "200" -> Returned(g, "spent")
       [] r = "404" -> IF RetryNotFound(g.attempt) THEN Retry(g) ELSE Returned(g, "null")
       [] r = "400" -> Returned(g, "null")
       [] r = "429" -> IF g.attempt < maxRetries THEN Retry(g) ELSE RetriesExhausted(g)
       [] OTHER     -> IF g.attempt < maxRetries THEN Retry(g) ELSE RetriesExhausted(g)

\* ---------------------------------------------------------------- actions
Commit(t, step) ==
  \E r \in {step} :
    /\ status' = r.e.status
    /\ queue' = r.e.queue
    /\ nodes' = r.e.nodes
    /\ edges' = r.e.edges
    /\ stats' = r.e.stats
    /\ processedOutputs' = r.e.processedOutputs
    /\ txCache' = r.e.txCache
    /\ lastEmit' = r.e.lastEmit
    /\ spentCalls' = r.e.spentCalls
    /\ txCalls' = r.e.txCalls
    /\ ui' = r.e.ui
    /\ pc' = [pc EXCEPT ![t] = r.pc]
    /\ cur' = [cur EXCEPT ![t] = r.cur]
    /\ spentInfo' = [spentInfo EXCEPT ![t] = r.sp]
    /\ UNCHANGED <<minValueBSV, maxDepth, mk, gs, bv, rd,
                 rq, px, mp, bf, nt>>

InitEngine ==
  /\ status = "idle"
  /\ queue = <<>>
  /\ nodes = <<>>
  /\ edges = <<>>
  /\ stats = createEmptyStats
  /\ processedOutputs = {}
  /\ txCache = <<>>
  /\ minValueBSV \in 0..MaxMinValue
  /\ maxDepth \in 0..MaxDepthArg
  /\ lastEmit = "none"
  /\ pc = [t \in Threads |-> IF t = Main THEN "idle" ELSE "free"]
  /\ cur = [t \in Threads |-> NoItem]
  /\ spentInfo = [t \in Threads |-> ""]
  /\ spentCalls = [k \in OutputKeys |-> 0]
  /\ txCalls = [t \in WideTxIds |-> 0]

\* a traversal whose onUpdate callback only records the status it is given
Init == InitEngine /\ ui = NoConsumer /\ mk = NoVisualizer /\ ServiceIdle

\* startTraversal lines 60-72, up to the await of the root fetch
StartTraversal ==
  /\ pc[Main] = "idle"
  /\ Commit(Main,
            Step([Eng EXCEPT !.queue = <<>>, !.nodes = <<>>, !.edges = <<>>,
                             !.stats = createEmptyStats,
                             !.processedOutputs = {}, !.txCache = <<>>,
                             !.status = "running",
                             !.txCalls[RootTxid] = @ + 1],
                 "rootFetch", NoItem, RootTxid))

RootFetchOk ==
  /\ pc[Main] = "rootFetch"
  /\ Commit(Main, processRootTx(Eng, TransactionInfo(RootTxid)))

RootFetchFail ==
  /\ pc[Main] = "rootFetch"
  /\ Commit(Main, rootFetchFailed(Eng))

SpentReturnOk(t) ==
  /\ pc[t] = "awaitSpent"
  /\ \E answer \in SpentAnswers : Commit(t, processSpentInfo(Eng, t, cur[t], answer))

\* the same return from the wider provider
SpentReturnOkWide(t) ==
  /\ pc[t] = "awaitSpent"
  /\ \E answer \in WideTxIds \cup {Unspent} :
       Commit(t, processSpentInfo(Eng, t, cur[t], answer))

SpentReturnFail(t) ==
  /\ pc[t] = "awaitSpent"
  /\ Commit(t, ItemFailed(Eng, t))

TxReturnOk(t) ==
  /\ pc[t] = "awaitTx"
  /\ Commit(t, processFetchedTx(Eng, t, cur[t], TransactionInfo(spentInfo[t])))

TxReturnFail(t) ==
  /\ pc[t] = "awaitTx"
  /\ Commit(t, ItemFailed(Eng, t))

Pause ==
  /\ status = "running"
  /\ status' = "paused"
  /\ stats' = [stats EXCEPT !.queueSize = Len(queue)]
  /\ lastEmit' = "paused"
  /\ ui' = handleUpdate(ui, [nodes |-> nodes, edges |-> edges, stats |-> stats'],
                        "paused")
  /\ UNCHANGED <<queue, nodes, edges, processedOutputs, txCache, minValueBSV,
                 maxDepth, pc, cur, spentInfo, spentCalls, txCalls, mk, gs, bv, rd,
                 rq, px, mp, bf, nt>>

\* resume() runs processQueue() up to its first await; the new loop takes the
\* lowest free coroutine slot
Resume ==
  /\ status = "paused"
  /\ \E t \in Threads \ {Main} :
       /\ pc[t] = "free"
       /\ \A u \in Threads \ {Main} : pc[u] = "free" => u >= t
       /\ Commit(t, processQueue([Eng EXCEPT !.status = "running"], t))

Stop ==
  /\ status' = "stopped"
  /\ queue' = <<>>
  /\ stats' = [stats EXCEPT !.queueSize = 0]
  /\ lastEmit' = "stopped"
  /\ ui' = handleUpdate(ui, [nodes |-> nodes, edges |-> edges, stats |-> stats'],
                        "stopped")
  /\ UNCHANGED <<nodes, edges, processedOutputs, txCache, minValueBSV,
                 maxDepth, pc, cur, spentInfo, spentCalls, txCalls, mk, gs, bv, rd,
                 rq, px, mp, bf, nt>>

ProviderReturn ==
  \E t \in Threads :
    SpentReturnOk(t) \/ SpentReturnFail(t) \/ TxReturnOk(t) \/ TxReturnFail(t)

Next ==
  \/ StartTraversal
  \/ RootFetchOk
  \/ RootFetchFail
  \/ ProviderReturn
  \/ Pause
  \/ Resume
  \/ Stop

Spec == Init /\ [][Next]_vars

\* a traversal whose user calls pause() and resume() but never stop()
NextPauseResume ==
  \/ StartTraversal
  \/ RootFetchOk
  \/ RootFetchFail
  \/ ProviderReturn
  \/ Pause
  \/ Resume

PauseSpec == Init /\ [][NextPauseResume]_vars

\* a traversal that is never paused or stopped, against a provider that
\* answers every call (with a result or with an error)
NextUninterrupted ==
  \/ StartTraversal
  \/ RootFetchOk
  \/ RootFetchFail
  \/ ProviderReturn

LiveSpec ==
  /\ Init
  /\ [][NextUninterrupted]_vars
  /\ WF_vars(RootFetchOk \/ RootFetchFail)
  /\ WF_vars(ProviderReturn)

\* an unlimited traversal without threshold against the wider provider, whose
\* calls all succeed; the user may pause and resume
WideInit == Init /\ maxDepth = 0 /\ minValueBSV = 0

WideProviderReturn == \E t \in Threads : SpentReturnOkWide(t) \/ TxReturnOk(t)

NextWide ==
  \/ StartTraversal
  \/ RootFetchOk
  \/ WideProviderReturn
  \/ Pause
  \/ Resume

WideSpec == WideInit /\ [][NextWide]_vars

\* 100 ms have passed since the consumer's last displayed update
Tick ==
  /\ ui.attached
  /\ ~ui.elapsed
  /\ ui' = [ui EXCEPT !.elapsed = TRUE]
  /\ UNCHANGED <<status, queue, nodes, edges, stats, processedOutputs, txCache,
                 minValueBSV, maxDepth, lastEmit, pc, cur, spentInfo, spentCalls,
                 txCalls, mk, gs, bv, rd,
                 rq, px, mp, bf, nt>>

\* the timer set by handleUpdate fires
Timeout ==
  /\ ui.attached
  /\ ui.updateTimeout
  /\ ui' = timeoutCallback(ui)
  /\ UNCHANGED <<status, queue, nodes, edges, stats, processedOutputs, txCache,
                 minValueBSV, maxDepth, lastEmit, pc, cur, spentInfo, spentCalls,
                 txCalls, mk, gs, bv, rd,
                 rq, px, mp, bf, nt>>

\* a traversal of depth 1 created by TxGraph (handleStart lines 174-177), with
\* the user's pause, resume and stop; timers that are set fire eventually
UiInit ==
  /\ InitEngine
  /\ maxDepth = 1
  /\ minValueBSV = 0
  /\ ui = TxGraphInit
  /\ mk = NoVisualizer
  /\ ServiceIdle

NextUi == Next \/ Tick \/ Timeout

UiSpec == UiInit /\ [][NextUi]_vars /\ WF_vars(Timeout)

\* TxGraph whose user stops the traversal and starts another one
RestartInit ==
  /\ InitEngine
  /\ maxDepth = 1
  /\ minValueBSV = 0
  /\ ui = TxGraphInit
  /\ mk = NoVisualizer
  /\ gs = NoCall /\ bv = NoValidation /\ rd = NoParse
  /\ rq = NoQueue /\ px = NoProxy /\ mp = NoPath /\ bf = NoBeef
  /\ nt = NotStarted

\* handleStart (TxGraph lines 165-180) after handleStop: a new instance with
\* the same handleUpdate, and its startTraversal up to the fetch of the root
handleStartAgain ==
  /\ status = "stopped"
  /\ nt.state = "none"
  /\ nt' = [nt EXCEPT !.state = "rootFetch"]
  /\ UNCHANGED <<status, queue, nodes, edges, stats, processedOutputs, txCache,
                 minValueBSV, maxDepth, lastEmit, pc, cur, spentInfo, spentCalls,
                 txCalls, ui, mk, gs, bv, rd, rq, px, mp, bf>>

\* the root of the new instance arrives: its first emission, and its loop up
\* to the first getSpentStatus (startTraversal lines 72-99)
NewRootFetchOk ==
  /\ nt.state = "rootFetch"
  /\ \E r \in {processRootTx(WithConsumer(nt.e, ui), TransactionInfo(NewRootTxid))} :
       /\ nt' = [state |-> "running", e |-> WithoutConsumer(r.e), cur |-> r.cur]
       /\ ui' = r.e.ui
  /\ UNCHANGED <<status, queue, nodes, edges, stats, processedOutputs, txCache,
                 minValueBSV, maxDepth, lastEmit, pc, cur, spentInfo, spentCalls,
                 txCalls, mk, gs, bv, rd, rq, px, mp, bf>>

\* handlePause, handleResume and handleStop (TxGraph lines 187-197) act on
\* traversalRef.current: the first instance from its handleStart until the
\* second handleStart replaces it
OnFirstInstance ==
  /\ pc[Main] # "idle"
  /\ nt.state = "none"
  /\ (Pause \/ Resume \/ Stop)

NextRestart ==
  \/ StartTraversal
  \/ RootFetchOk
  \/ RootFetchFail
  \/ ProviderReturn
  \/ OnFirstInstance
  \/ Tick
  \/ Timeout
  \/ handleStartAgain
  \/ NewRootFetchOk

RestartSpec == RestartInit /\ [][NextRestart]_vars

\* ---------------------------------------------------------------- visualizer
engineVars ==
  <<status, queue, nodes, edges, stats, processedOutputs, txCache, minValueBSV,
    maxDepth, lastEmit, pc, cur, spentInfo, spentCalls, txCalls>>

RECURSIVE Lists(_)
Lists(n) ==
  IF n = 0
  THEN {<<>>}
  ELSE LET shorter == Lists(n - 1)
       IN shorter \cup {Append(l, d) : l \in {x \in shorter : Len(x) = n - 1},
                                       d \in 1..MaxItem}

\* the user has typed 1..MaxLeaves data items, or the number of a block whose
\* transaction list (blockData.tx) has 1..MaxLeaves ids
MerkleInit ==
  /\ InitEngine
  /\ maxDepth = 0
  /\ minValueBSV = 0
  /\ ui = NoConsumer
  /\ ServiceIdle
  /\ \E l \in Lists(MaxLeaves) \ {<<>>} :
       \/ mk = [NoVisualizer EXCEPT
                  !.phase = "input", !.source = "text",
                  !.dataItems = [i \in 1..Len(l) |-> ItemText(l[i])]]
       \/ mk = [NoVisualizer EXCEPT
                  !.phase = "input", !.source = "block",
                  !.dataItems = [i \in 1..Len(l) |-> BlockTxid(l[i])]]

\* handleDataInput
BuildTree ==
  /\ mk.phase = "input"
  /\ mk.source = "text"
  /\ mk' = Built(mk.source, mk.dataItems, "built")
  /\ UNCHANGED <<engineVars, ui, gs, bv, rd,
                 rq, px, mp, bf, nt>>

\* loadBlockData (MerkleTreeVisualizer.tsx lines 290-327, part_002 lines
\* 277-317): the tree is built from blockData.tx
loadBlockData ==
  /\ mk.phase = "input"
  /\ mk.source = "block"
  /\ mk' = Built(mk.source, mk.dataItems, "built")
  /\ UNCHANGED <<engineVars, ui, gs, bv, rd,
                 rq, px, mp, bf, nt>>

\* handleDataInput again, on the same input
Rebuild ==
  /\ mk.phase = "built"
  /\ mk' = Built(mk.source, mk.dataItems, "rebuilt")
  /\ UNCHANGED <<engineVars, ui, gs, bv, rd,
                 rq, px, mp, bf, nt>>

\* handleDataInput after the user repeated the last item of the input
BuildExtended ==
  /\ mk.phase = "built"
  /\ mk' = Built(mk.source, Append(mk.dataItems, mk.dataItems[Len(mk.dataItems)]),
                 "extended")
  /\ UNCHANGED <<engineVars, ui, gs, bv, rd,
                 rq, px, mp, bf, nt>>

\* handleLeafClick: MerkleTreeVisualizer.tsx lines 330-340, part_002 lines
\* 321-333
LeafClick ==
  /\ mk.phase = "built"
  /\ \E i \in 0..(Len(mk.dataItems) - 1) :
       LET leafId == "leaf-" \o ToString(i)
       IN mk' = [mk EXCEPT !.phase = "selected",
                           !.selectedLeaf = leafId,
                           !.merklePath = findMerklePath(mk.tree[1], leafId),
                           !.merklePath2 = findMerklePath2(mk.tree2[1], leafId)]
  /\ UNCHANGED <<engineVars, ui, gs, bv, rd,
                 rq, px, mp, bf, nt>>

\* the effect that computes the proof steps: MerkleTreeVisualizer.tsx lines
\* 388-421, part_002 lines 404-437
ProofSteps ==
  /\ mk.phase = "selected"
  /\ mk' = [mk EXCEPT
              !.phase = "proved",
              !.proof = <<calculateMerkleProofSteps(
                            leafHash(mk.tree[1], mk.selectedLeaf)[1], mk.merklePath)>>,
              !.proof2 = <<calculateMerkleProofSteps2(
                             leafHash(mk.tree2[1], mk.selectedLeaf)[1], mk.merklePath2,
                             mk.selectedLeaf, mk.tree2[1])>>]
  /\ UNCHANGED <<engineVars, ui, gs, bv, rd,
                 rq, px, mp, bf, nt>>

NextMerkle ==
  \/ BuildTree
  \/ loadBlockData
  \/ Rebuild
  \/ BuildExtended
  \/ LeafClick
  \/ ProofSteps

MerkleSpec == MerkleInit /\ [][NextMerkle]_vars

\* ---------------------------------------------------------------- calls
visualVars == <<ui, mk>>

\* getSpentStatus is called: attempt 0 sends the first request
CallSpentStatus ==
  /\ gs.state = "idle"
  /\ gs' = [gs EXCEPT !.state = "waiting"]
  /\ UNCHANGED <<engineVars, visualVars, bv, rd,
                 rq, px, mp, bf, nt>>

\* the request of the current attempt is answered
SpentStatusResponse ==
  /\ gs.state = "waiting"
  /\ \E r \in Responses : gs' = onResponse(gs, r)
  /\ UNCHANGED <<engineVars, visualVars, bv, rd,
                 rq, px, mp, bf, nt>>

\* the caller calls again
CallAgain ==
  /\ gs.state \in {"returned", "thrown"}
  /\ gs' = [NoCall EXCEPT !.state = "waiting"]
  /\ UNCHANGED <<engineVars, visualVars, bv, rd,
                 rq, px, mp, bf, nt>>

SpentStatusInit ==
  /\ InitEngine
  /\ maxDepth = 0
  /\ minValueBSV = 0
  /\ ui = NoConsumer
  /\ mk = NoVisualizer
  /\ ServiceIdle

NextSpentStatus == CallSpentStatus \/ SpentStatusResponse \/ CallAgain

SpentStatusSpec == SpentStatusInit /\ [][NextSpentStatus]_vars

RECURSIVE SeqsUpTo(_, _)
SeqsUpTo(S, n) ==
  IF n = 0
  THEN {<<>>}
  ELSE LET shorter == SeqsUpTo(S, n - 1)
       IN shorter \cup {Append(l, x) : l \in {y \in shorter : Len(y) = n - 1},
                                       x \in S}

\* validateBumpData is called with a block height and a list of ids: the
\* block is being fetched (line 453)
BumpInit ==
  /\ InitEngine
  /\ maxDepth = 0
  /\ minValueBSV = 0
  /\ ui = NoConsumer
  /\ mk = NoVisualizer
  /\ gs = NoCall
  /\ rd = NoParse
  /\ LaterIdle
  /\ \E l \in SeqsUpTo(BumpTxids, MaxTxids) :
       bv = [state |-> "fetching", txids |-> l, block |-> <<>>, result |-> <<>>]

\* getBlockByHeight returned a block
BlockFetched ==
  /\ bv.state = "fetching"
  /\ \E tx \in SeqsUpTo(BumpTxids, MaxTxids) :
       LET block == [hash |-> "h", merkleroot |-> "m", tx |-> tx]
       IN bv' = [bv EXCEPT !.state = "done",
                           !.block = <<block>>,
                           !.result = <<validateBumpDataFetched(bv.txids, block)>>]
  /\ UNCHANGED <<engineVars, visualVars, gs, rd,
                 rq, px, mp, bf, nt>>

\* getBlockByHeight threw
BlockFetchFailed ==
  /\ bv.state = "fetching"
  /\ bv' = [bv EXCEPT !.state = "done",
                      !.result = <<validateBumpDataFailed(bv.txids)>>]
  /\ UNCHANGED <<engineVars, visualVars, gs, rd,
                 rq, px, mp, bf, nt>>

NextBump == BlockFetched \/ BlockFetchFailed

BumpSpec == BumpInit /\ [][NextBump]_vars

\* parseTransactionDetails is about to be called with the hex of a buffer
ParseInit ==
  /\ InitEngine
  /\ maxDepth = 0
  /\ minValueBSV = 0
  /\ ui = NoConsumer
  /\ mk = NoVisualizer
  /\ gs = NoCall
  /\ bv = NoValidation
  /\ LaterIdle
  /\ \E hexBytes \in Buffers : rd = ParseCalled(hexBytes)

\* the call runs to its first await, to its return or to its throw
parseTransactionDetails ==
  /\ rd.state = "called"
  /\ rd' = ParseFromStart(rd)
  /\ UNCHANGED <<engineVars, visualVars, gs, bv,
                 rq, px, mp, bf, nt>>

\* crypto.subtle.digest resolved (line 418-419)
DigestResolved ==
  /\ rd.state = "digest"
  /\ rd' = PushOutput(rd, "hash")
  /\ UNCHANGED <<engineVars, visualVars, gs, bv,
                 rq, px, mp, bf, nt>>

\* crypto.subtle.digest rejected (lines 420-422)
DigestRejected ==
  /\ rd.state = "digest"
  /\ rd' = PushOutput(rd, "hash_calculation_failed")
  /\ UNCHANGED <<engineVars, visualVars, gs, bv,
                 rq, px, mp, bf, nt>>

NextParse == parseTransactionDetails \/ DigestResolved \/ DigestRejected

ParseSpec == ParseInit /\ [][NextParse]_vars

\* the request queue of the module, before its first request
QueueInit ==
  /\ InitEngine
  /\ maxDepth = 0
  /\ minValueBSV = 0
  /\ ui = NoConsumer
  /\ mk = NoVisualizer
  /\ gs = NoCall /\ bv = NoValidation /\ rd = NoParse
  /\ rq = NewQueue
  /\ px = NoProxy /\ mp = NoPath /\ bf = NoBeef /\ nt = NoInstance

queueOthers == <<engineVars, visualVars, gs, bv, rd, px, mp, bf, nt>>

\* a caller passes a request to the queue
Enqueue ==
  /\ rq.state = "ready"
  /\ \E id \in RequestIds :
       /\ \A k \in 1..Len(rq.enqueued) : rq.enqueued[k] # id
       /\ rq' = enqueue(rq, id)
  /\ UNCHANGED queueOthers

TimerDue == \E l \in 1..Len(rq.loops) : rq.loops[l].pc = "timer" /\ rq.loops[l].waitTime = 0

\* MIN_DELAY milliseconds pass (every delay of the queue is a multiple of
\* it); a timer that is due fires first
TimePasses ==
  /\ rq.state = "ready"
  /\ ~TimerDue
  /\ rq' = [rq EXCEPT
       !.timeSinceLastRequest = Min(@ + MIN_DELAY, MIN_DELAY + MaxBackoffDelay),
       !.loops = [l \in 1..Len(rq.loops) |->
                    IF rq.loops[l].pc = "timer"
                    THEN [rq.loops[l] EXCEPT !.waitTime = @ - MIN_DELAY]
                    ELSE rq.loops[l]]]
  /\ rq' # rq
  /\ UNCHANGED queueOthers

\* the setTimeout of line 131 fires and the loop takes the next request
TimerFires ==
  /\ rq.state = "ready"
  /\ \E l \in 1..Len(rq.loops) :
       /\ rq.loops[l].pc = "timer"
       /\ rq.loops[l].waitTime = 0
       /\ LET s == StartRequest(rq, l)
          IN rq' = IF s.loops[l].pc = "skip" THEN LoopTop(s, l, FALSE) ELSE s
  /\ UNCHANGED queueOthers

\* the request of loop l ends; the wrapper settles the caller's promise and
\* the loop goes on to its next await or to its end
RequestEnds ==
  /\ rq.state = "ready"
  /\ \E l \in 1..Len(rq.loops), o \in Outcomes :
       /\ rq.loops[l].pc = "request"
       /\ LET id == rq.loops[l].request
              w == Wrapper([rq EXCEPT !.outcomes = Append(@, o)], id, o)
          IN rq' = LoopTop(AfterRequest(w), l, FALSE)
  /\ UNCHANGED queueOthers

NextQueue == Enqueue \/ TimePasses \/ TimerFires \/ RequestEnds

\* time passes, timers fire and every request ends
QueueSpec ==
  /\ QueueInit
  /\ [][NextQueue]_vars
  /\ WF_vars(TimePasses)
  /\ WF_vars(TimerFires)
  /\ WF_vars(RequestEnds)

\* the proxy module after it was loaded
ProxyInit ==
  /\ InitEngine
  /\ maxDepth = 0
  /\ minValueBSV = 0
  /\ ui = NoConsumer
  /\ mk = NoVisualizer
  /\ gs = NoCall /\ bv = NoValidation /\ rd = NoParse
  /\ px = NewProxy
  /\ rq = NoQueue /\ mp = NoPath /\ bf = NoBeef /\ nt = NoInstance

proxyOthers == <<engineVars, visualVars, gs, bv, rd, rq, mp, bf, nt>>

\* POST is called and waits for the request body (line 27)
Post ==
  /\ px.state = "ready"
  /\ \E h \in PostIds, valid \in BOOLEAN :
       /\ px.handlers[h].pc = "new"
       /\ px' = [px EXCEPT !.handlers[h].pc = "body", !.handlers[h].valid = valid]
  /\ UNCHANGED proxyOthers

\* the body has arrived: validation and rateLimit, up to the next await
BodyRead ==
  /\ px.state = "ready"
  /\ \E h \in PostIds :
       /\ px.handlers[h].pc = "body"
       /\ px' = PostBody(px, h)
  /\ UNCHANGED proxyOthers

ProxyTimerDue ==
  \E h \in PostIds : px.handlers[h].pc = "timer" /\ px.handlers[h].waitTime <= 0

\* the clock advances; a timer that is due fires first
ProxyTimePasses ==
  /\ px.state = "ready"
  /\ ~ProxyTimerDue
  /\ px' = [px EXCEPT
       !.timeSinceLastRequest = Min(@ + ProxyClockStep, rateLimitDelay),
       !.sinceUpstream = Min(@ + ProxyClockStep, rateLimitDelay),
       !.handlers = [h \in PostIds |->
                       IF px.handlers[h].pc = "timer"
                       THEN [px.handlers[h] EXCEPT !.waitTime = @ - ProxyClockStep]
                       ELSE px.handlers[h]]]
  /\ px' # px
  /\ UNCHANGED proxyOthers

\* the setTimeout of line 19 fires: line 22, then the upstream request
RateLimitTimerFires ==
  /\ px.state = "ready"
  /\ \E h \in PostIds :
       /\ px.handlers[h].pc = "timer"
       /\ px.handlers[h].waitTime <= 0
       /\ px' = Fetch(SetLastRequestTime(px), h)
  /\ UNCHANGED proxyOthers

\* the upstream answers and the handler returns its response (lines 67-90)
UpstreamResponds ==
  /\ px.state = "ready"
  /\ \E h \in PostIds, upstream \in {200, 404, 429} :
       /\ px.handlers[h].pc = "fetch"
       /\ px' = [px EXCEPT !.handlers[h].pc = "done", !.handlers[h].status = upstream]
  /\ UNCHANGED proxyOthers

NextProxy ==
  Post \/ BodyRead \/ ProxyTimePasses \/ RateLimitTimerFires \/ UpstreamResponds

ProxySpec == ProxyInit /\ [][NextProxy]_vars

\* validateMerklePath is about to be called for a client txid of a BUMP, with
\* the merkle root of the block; the BUMP is whole or lacks one of its
\* nodes that is not a client txid
PathInit ==
  /\ InitEngine
  /\ maxDepth = 0
  /\ minValueBSV = 0
  /\ ui = NoConsumer
  /\ mk = NoVisualizer
  /\ gs = NoCall /\ bv = NoValidation /\ rd = NoParse
  /\ rq = NoQueue /\ px = NoProxy /\ bf = NoBeef /\ nt = NoInstance
  /\ \E n \in 1..MaxBlockTx :
       \E clients \in (SUBSET (0..(n - 1))) \ {{}} :
         \E offset \in clients :
           LET whole == BumpPath(n, clients)
               lacking == {WithoutNode(whole, h, k) :
                             <<h, k>> \in {x \in (1..Len(whole)) \X (1..(n + 1)) :
                                             /\ x[2] <= Len(whole[x[1]])
                                             /\ ~whole[x[1]][x[2]].isClientTxid}}
           IN \E merklePath \in {whole} \cup lacking :
                mp = [state |-> "called", n |-> n, clients |-> clients,
                      offset |-> offset, whole |-> merklePath = whole,
                      txid |-> BumpTxid(offset), merkleRoot |-> BlockMerkleRoot(n),
                      merklePath |-> merklePath, result |-> <<>>]

\* the call returns its result
ValidatePath ==
  /\ mp.state = "called"
  /\ mp' = [mp EXCEPT !.state = "returned",
                      !.result = <<validateMerklePath(mp.txid, mp.merkleRoot,
                                                      mp.merklePath)>>]
  /\ UNCHANGED <<engineVars, visualVars, gs, bv, rd, rq, px, bf, nt>>

NextPath == ValidatePath

PathSpec == PathInit /\ [][NextPath]_vars

BeefInit ==
  /\ InitEngine
  /\ maxDepth = 0
  /\ minValueBSV = 0
  /\ ui = NoConsumer
  /\ mk = NoVisualizer
  /\ gs = NoCall /\ bv = NoValidation /\ rd = NoParse
  /\ rq = NoQueue /\ px = NoProxy /\ mp = NoPath /\ nt = NoInstance
  /\ bf = ParsedBeef

beefOthers == <<engineVars, visualVars, gs, bv, rd, rq, px, mp, nt>>

\* the user asks for the validation of a BUMP; the handler is the one of the
\* latest render
ValidateBump ==
  /\ bf.state = "parsed"
  /\ \E bumpIndex \in BumpIndexes :
       /\ bf.calls[bumpIndex].pc = "idle"
       /\ bf' = validateBumpStart(bf, bumpIndex)
  /\ UNCHANGED beefOthers

\* validateBumpData returns its result (it does not throw)
BumpValidated ==
  /\ bf.state = "parsed"
  /\ \E bumpIndex \in BumpIndexes, isValid \in BOOLEAN :
       /\ bf.calls[bumpIndex].pc = "await"
       /\ bf' = validateBumpEnd(bf, bumpIndex, isValid)
  /\ UNCHANGED beefOthers

NextBeef == ValidateBump \/ BumpValidated

BeefSpec == BeefInit /\ [][NextBeef]_vars

\* ---------------------------------------------------------------- properties
InFlight == {t \in Threads : pc[t] \in {"rootFetch", "awaitSpent", "awaitTx"}}

ItemsInFlight == {t \in Threads : pc[t] \in {"awaitSpent", "awaitTx"}}

Started == pc[Main] # "idle"

\* C1: once stop() was called on a started traversal, the status stays
\* 'stopped' in every later step.
C1_StoppedIsTerminal ==
  [][(Started /\ status = "stopped") => status' = "stopped"]_vars

\* C2: the status becomes 'completed' only from 'running', and only with an
\* empty queue and no item in flight.
C2_CompletedOnlyWhenDrained ==
  [][(status' = "completed" /\ status # "completed")
       => (status = "running" /\ queue' = <<>> /\ ItemsInFlight' = {})]_vars

\* C3: across pause()/resume() no work item is lost: every output that was
\* taken from the queue is in flight, has produced its edge (utxo, fee or
\* spending), or was counted as an error.
C3_NoWorkLost ==
  status # "error" =>
    Cardinality(processedOutputs)
      = Len(edges) + stats.errors + Cardinality(ItemsInFlight)

\* C4: once the traversal is stopped, no later step changes the node map, the
\* edge list or the queue.
C4_StopDiscardsResults ==
  [][(Started /\ status = "stopped") => UNCHANGED <<nodes, edges, queue>>]_vars

\* C5: a provider call (spent-status check or transaction fetch) is issued
\* only while the status is 'running'.
C5_CallsOnlyWhenRunning ==
  [][(spentCalls' # spentCalls \/ txCalls' # txCalls) => status' = "running"]_vars

\* a spending transaction was fetched, and the traversal is now paused with a
\* call in flight
C5_Witness ==
  /\ status = "paused"
  /\ ItemsInFlight # {}
  /\ \E t \in TxIds \ {RootTxid} : txCalls[t] > 0

\* C6: at most one processing loop is active, hence at most one provider call
\* is in flight.
C6_SingleLoop == Cardinality(InFlight) <= 1

\* C7: getSpentStatus is called at most once for each (txid, outputIndex).
C7_SpentAtMostOnce == \A k \in OutputKeys : spentCalls[k] <= 1

\* an unlimited traversal completed on a graph where two outputs have the same
\* spender and a spending edge leads back to the root
C7_Witness ==
  /\ status = "completed"
  /\ maxDepth = 0
  /\ \E i, j \in 1..Len(edges) :
       /\ i # j
       /\ edges[i].type = "spending"
       /\ edges[j].type = "spending"
       /\ edges[i].to = edges[j].to
  /\ \E i \in 1..Len(edges) :
       edges[i].type = "spending" /\ edges[i].to = TxNodeId(RootTxid)

\* C8: a traversal whose root fetch succeeded and that is never paused or
\* stopped reaches 'completed' with an empty queue, whatever the provider
\* answers or fails.
C8_Completes ==
  (TxNodeId(RootTxid) \in DOMAIN nodes) ~> (status = "completed" /\ queue = <<>>)

\* completed although per-item calls failed
C8_Witness ==
  /\ status = "completed"
  /\ queue = <<>>
  /\ stats.errors >= 2
  /\ Len(edges) >= 1

\* C9: the status becomes 'error' only when the root fetch fails; a failing
\* per-item call adds exactly one to stats.errors, does not make the status
\* 'error', leaves nodes and edges alone, and the loop goes on with the next
\* queued item.
C9_OnlyRootFetchIsFatal ==
  [][/\ (status' = "error" /\ status # "error") => pc[Main] = "rootFetch"
     /\ (stats'.errors # stats.errors) =>
          /\ stats'.errors = stats.errors + 1
          /\ \/ pc[Main] = "rootFetch" /\ status' = "error"
             \/ \E t \in ItemsInFlight :
                  LET rest == SkipProcessed(queue, processedOutputs) IN
                  /\ status' # "error"
                  /\ nodes' = nodes
                  /\ edges' = edges
                  /\ status = "running" => status' \in {"running", "completed"}
                  /\ (status = "running" /\ rest # <<>>) =>
                       /\ status' = "running"
                       /\ pc'[t] = "awaitSpent"
                       /\ cur'[t] = Head(rest)
                       /\ queue' = Tail(rest)]_vars

\* an item failed and the loop is processing the next one
C9_Witness ==
  /\ status = "running"
  /\ stats.errors >= 1
  /\ ItemsInFlight # {}

\* C10: with maxDepth = d > 0 no node has level > d and no work item has
\* level >= d; with maxDepth = 0 every spending transaction that is reached
\* has its outputs (those that pass the value threshold) queued or processed,
\* at any level.
C10_LevelsBounded ==
  maxDepth > 0 =>
    /\ \A k \in DOMAIN nodes : nodes[k].level <= maxDepth
    /\ \A i \in 1..Len(queue) : queue[i].level < maxDepth
    /\ \A t \in ItemsInFlight : cur[t].level < maxDepth

C10_UnlimitedExpands ==
  (/\ maxDepth = 0
   /\ Len(edges') = Len(edges) + 1
   /\ edges'[Len(edges')].type = "spending")
  => LET tx == TransactionInfo(edges'[Len(edges')].to.txid) IN
     \A i \in 1..Len(tx.vout) :
       ~(minValueBSV > 0 /\ tx.vout[i].value < minValueBSV) =>
         \/ <<tx.txid, tx.vout[i].n>> \in processedOutputs'
         \/ \E j \in 1..Len(queue') : OutputKey(queue'[j]) = <<tx.txid, tx.vout[i].n>>

\* C10: the depth bound for maxDepth > 0 holds in every state, and with
\* maxDepth = 0 every step that follows a spending transaction expands it.
C10_DepthBound == []C10_LevelsBounded /\ [][C10_UnlimitedExpands]_vars

\* an unlimited traversal has reached a node three levels below the root
C10_Witness ==
  /\ maxDepth = 0
  /\ \E k \in DOMAIN nodes : nodes[k].level >= 3

\* the outputs of transaction t are all queued or taken for processing
AllOutputsQueued(t, q, done) ==
  \A i \in 1..Len(TxValues(t)) :
    \/ <<t, i - 1>> \in done
    \/ \E j \in 1..Len(q) : OutputKey(q[j]) = <<t, i - 1>>

\* C11: with a threshold m > 0 no queued or processed work item has a value
\* below m.
C11_NoneBelowThreshold ==
  minValueBSV > 0 =>
    /\ \A i \in 1..Len(queue) : queue[i].value >= minValueBSV
    /\ \A t \in ItemsInFlight : cur[t].value >= minValueBSV

\* C11: with m = 0 every output of the root, and of every spending
\* transaction that is expanded, is enqueued.
C11_AllEnqueuedWithoutThreshold ==
  minValueBSV = 0 =>
    /\ (TxNodeId(RootTxid) \notin DOMAIN nodes /\ TxNodeId(RootTxid) \in DOMAIN nodes')
         => AllOutputsQueued(RootTxid, queue', processedOutputs')
    /\ \A t \in ItemsInFlight :
         (/\ Len(edges') = Len(edges) + 1
          /\ edges'[Len(edges')].type = "spending"
          /\ edges'[Len(edges')].from = TxNodeId(cur[t].parentTxid)
          /\ edges'[Len(edges')].vout = cur[t].vout
          /\ (maxDepth = 0 \/ cur[t].level + 1 < maxDepth))
         => AllOutputsQueued(edges'[Len(edges')].to.txid, queue', processedOutputs')

C12_TotalNodesIsMapSize == stats.totalNodes = Cardinality(DOMAIN nodes)

\* the work items of transaction t's outputs that pass the threshold, by
\* ascending output index
ExpectedBatch(t, l) ==
  LET pass(it) == minValueBSV = 0 \/ it.value >= minValueBSV
  IN SelectSeq([i \in 1..Len(TxValues(t)) |->
                  [txid |-> t, parentTxid |-> t, vout |-> i - 1, level |-> l,
                   value |-> TxValues(t)[i]]],
               pass)

\* what the step enqueues: the root's outputs when the root arrives, the
\* spender's outputs when a spending edge is added above the depth limit
EnqueuedInStep ==
  IF TxNodeId(RootTxid) \notin DOMAIN nodes /\ TxNodeId(RootTxid) \in DOMAIN nodes'
  THEN ExpectedBatch(RootTxid, 0)
  ELSE IF /\ Len(edges') = Len(edges) + 1
          /\ edges'[Len(edges')].type = "spending"
          /\ \E t \in ItemsInFlight :
               /\ edges'[Len(edges')].from = TxNodeId(cur[t].parentTxid)
               /\ edges'[Len(edges')].vout = cur[t].vout
               /\ (maxDepth = 0 \/ cur[t].level + 1 < maxDepth)
  THEN LET t == CHOOSE u \in ItemsInFlight :
                  /\ edges'[Len(edges')].from = TxNodeId(cur[u].parentTxid)
                  /\ edges'[Len(edges')].vout = cur[u].vout
       IN ExpectedBatch(edges'[Len(edges')].to.txid, cur[t].level + 1)
  ELSE <<>>

\* coroutine t takes a new work item in this step
TakesItem(t) ==
  /\ pc'[t] = "awaitSpent"
  /\ OutputKey(cur'[t]) \notin processedOutputs
  /\ OutputKey(cur'[t]) \in processedOutputs'

\* C13: the item a loop takes is the first not yet processed item of the
\* queue in enqueue order (outputs of one transaction by ascending index),
\* and the queue keeps what follows it.
C13_Fifo ==
  \A t \in Threads :
    TakesItem(t) =>
      LET full == queue \o EnqueuedInStep IN
      \E k \in 1..Len(full) :
        /\ full[k] = cur'[t]
        /\ \A i \in 1..(k - 1) : OutputKey(full[i]) \in processedOutputs
        /\ queue' = SubSeq(full, k + 1, Len(full))

\* C13: the level of a newly taken item is not below the level of any item
\* taken before it.
C13_LevelsNeverDecrease ==
  \A t \in Threads :
    TakesItem(t) => \A u \in ItemsInFlight : cur[u].level <= cur'[t].level

\* C13: work items are processed in enqueue order and their levels never
\* decrease.
C13_BreadthFirst == [][C13_Fifo /\ C13_LevelsNeverDecrease]_vars

\* coroutine u receives the transaction it asked the provider for
FetchSucceeds(u) ==
  /\ pc[u] \in {"rootFetch", "awaitTx"}
  /\ pc'[u] # pc[u]
  /\ stats'.apiCallsCount = stats.apiCallsCount + 1

\* C14: getTransaction is not called for a txid that was already fetched, and
\* a txid is fetched successfully at most once: when a fetch of it succeeds,
\* it is not yet in the cache.
C14_FetchedAtMostOnce ==
  [][/\ \A t \in WideTxIds : txCalls'[t] > txCalls[t] => t \notin DOMAIN txCache
     /\ \A u \in Threads : FetchSucceeds(u) => spentInfo[u] \notin DOMAIN txCache]_vars

\* the status changes the engine's state machine allows
AllowedTransitions ==
  {<<"idle", "running">>, <<"running", "paused">>, <<"paused", "running">>,
   <<"running", "stopped">>, <<"paused", "stopped">>,
   <<"running", "completed">>, <<"running", "error">>}

\* C18: the status starts as 'idle' and every change of it is one of the
\* listed transitions.
C18_OnlyListedTransitions ==
  /\ status = "idle"
  /\ [][status' # status => <<status, status'>> \in AllowedTransitions]_vars

Terminal == {"completed", "error", "stopped"}

\* what the component displays: its graphData and status state, null before
\* the first update
Shown ==
  IF ui.graphData = <<>>
  THEN <<>>
  ELSE <<[data |-> ui.graphData[1], status |-> ui.status]>>

\* C15: every transition of the traversal to 'completed', 'error' or
\* 'stopped' comes with an emission of that status, and the consumer displays
\* that emission in the same step: the displayed status and data are the
\* engine's, no update stays pending and no timer stays set.
C15_TerminalImmediate ==
  [][(status' # status /\ status' \in Terminal) =>
       /\ lastEmit' = status'
       /\ ui'.status = status'
       /\ ui'.graphData = <<[nodes |-> nodes', edges |-> edges', stats |-> stats']>>
       /\ ui'.pendingUpdate = <<>>
       /\ ~ui'.updateTimeout]_vars

\* a terminal status was displayed less than 100 ms after the previous update,
\* for a graph that has spending edges
C15_Witness ==
  /\ status \in Terminal
  /\ ui.status = status
  /\ ~ui.elapsed
  /\ ui.graphData # <<>>
  /\ ui.graphData[1].edges # <<>>
  /\ ui.pendingUpdate = <<>>

\* C16: whenever the display changes it changes to the latest emission, so an
\* older emission is never displayed after a newer one; and a latest emission
\* that is not displayed is eventually displayed.
C16_LatestDelivered ==
  /\ [][Shown' # Shown => Shown' = ui'.emitted]_vars
  /\ (Shown # ui.emitted) ~> (Shown = ui.emitted)

\* the latest emission was deferred by the throttle: the traversal is paused,
\* the component still displays 'running' and the timer is set
C16_Witness ==
  /\ status = "paused"
  /\ ui.status = "running"
  /\ ui.updateTimeout
  /\ ui.pendingUpdate # <<>>
  /\ ui.pendingUpdate[1].status = "paused"

\* what a cloned GraphData holds now: the clone of lines 73-80 copies the map,
\* the edge list and the stats, but the map's values are the engine's node
\* objects, and processOutput lines 169-176 updates the outputs of a
\* transaction node in place
Contents(data) ==
  [nodes |-> [k \in DOMAIN data.nodes |->
                IF k.sfx = "" /\ k \in DOMAIN nodes THEN nodes[k] ELSE data.nodes[k]],
   edges |-> data.edges,
   stats |-> data.stats]

\* C17: the snapshot the consumer displays still has the contents it was
\* delivered with, whatever the engine did since.
C17_SnapshotIsIndependentCopy ==
  ui.graphData # <<>> => Contents(ui.graphData[1]) = ui.graphData[1]

\* the sibling hashes of a path, in the path's order
SiblingHashes(path) == SelectSeq(path, LAMBDA step : ~step.isTarget)

SelectedIndex == findLeafIndex(mk.tree[1], mk.selectedLeaf)

\* C19: for the selected leaf i of the input, folding the leaf's hash with the
\* sibling list produced for i, left or right by the parity of the running
\* index, gives the root of the tree built from the input; in both versions
\* of the visualizer.
C19_RoundTrip ==
  mk.phase = "selected" =>
    /\ FoldByParity(leafHash(mk.tree2[1], mk.selectedLeaf)[1],
                    SiblingHashes(mk.merklePath2), SelectedIndex) = mk.tree2[1].hash
    /\ FoldByParity(leafHash(mk.tree[1], mk.selectedLeaf)[1],
                    SiblingHashes(mk.merklePath), SelectedIndex) = mk.tree[1].hash

\* the round trip in the version of part_002 alone, with the proof that the
\* component computes
C19_RoundTripPart002 ==
  mk.phase = "proved" => mk.proof2 = <<mk.tree2[1].hash>>

\* the proof that MerkleTreeVisualizer.tsx computes from its own path
C19_ProofIsRoot ==
  mk.phase = "proved" => mk.proof = <<mk.tree[1].hash>>

Roots == <<mk.tree[1].hash, mk.tree2[1].hash, mk.root[1]>>

\* C20: when the last item of an input of odd length >= 3 is repeated, the
\* three roots (both visualizers and calculateMerkleRoot) stay the same; and
\* building the same input again gives the same roots.
C20_DuplicationPreservesRoot ==
  [][/\ (/\ mk.phase = "built"
         /\ mk'.phase = "extended"
         /\ Len(mk.dataItems) >= 3
         /\ Len(mk.dataItems) % 2 = 1) => Roots' = Roots
     /\ (mk.phase = "built" /\ mk'.phase = "rebuilt") => Roots' = Roots]_vars

\* an input of five items that are not all equal was built with its last item
\* repeated
C20_Witness ==
  /\ mk.phase = "extended"
  /\ Len(mk.dataItems) = 6
  /\ mk.dataItems[1] # mk.dataItems[6]
  /\ mk.dataItems[4] # mk.dataItems[5]

\* the hashes of the sibling steps of a path, in the path's order
Siblings(path) ==
  [i \in 1..Len(SiblingHashes(path)) |-> SiblingHashes(path)[i].hash]

\* the leaf hashes both buildMerkleTree functions compute for the input
LeafHashes == [i \in 1..Len(mk.dataItems) |-> hashData(mk.dataItems[i])]

\* the next level as C21 describes it: pairs left to right, an unpaired last
\* element paired with a copy of itself
PairedLevel(l) ==
  [k \in 1..((Len(l) + 1) \div 2) |->
     hashBinary(l[2 * k - 1], IF 2 * k <= Len(l) THEN l[2 * k] ELSE l[2 * k - 1])]

RECURSIVE FoldLevels(_)
FoldLevels(l) == IF Len(l) > 1 THEN FoldLevels(PairedLevel(l)) ELSE l[1]

\* every inner node's hash is the hash of its children's hashes, the left
\* child's twice where there is no right child
RECURSIVE HashesChildren(_)
HashesChildren(node) ==
  \/ node.isLeaf
  \/ /\ node.left # <<>>
     /\ node.hash = hashBinary(node.left[1].hash,
                               IF node.right # <<>> THEN node.right[1].hash
                               ELSE node.left[1].hash)
     /\ HashesChildren(node.left[1])
     /\ node.right # <<>> => HashesChildren(node.right[1])

\* the part of C21 about the construction: the three roots are the fold of the
\* leaf hashes and both trees hash their children
C21_BuildsByPairing ==
  mk.tree # <<>> =>
    /\ Roots = <<FoldLevels(LeafHashes), FoldLevels(LeafHashes), FoldLevels(LeafHashes)>>
    /\ HashesChildren(mk.tree[1])
    /\ HashesChildren(mk.tree2[1])

\* C21: the tree is built level by level by pairing left to right, an unpaired
\* last element with a copy of itself; and for three leaves [A, B, C] the root
\* is H(H(A,B), H(C,C)) and the proof of index 0 is [B, H(C,C)], in both
\* versions of the visualizer.
C21_BuildTree ==
  /\ C21_BuildsByPairing
  /\ (mk.phase = "selected" /\ Len(mk.dataItems) = 3 /\ mk.selectedLeaf = "leaf-0") =>
       LET A == LeafHashes[1]
           B == LeafHashes[2]
           C == LeafHashes[3]
       IN /\ mk.tree[1].hash = hashBinary(hashBinary(A, B), hashBinary(C, C))
          /\ mk.tree2[1].hash = hashBinary(hashBinary(A, B), hashBinary(C, C))
          /\ Siblings(mk.merklePath2) = <<B, hashBinary(C, C)>>
          /\ Siblings(mk.merklePath) = <<B, hashBinary(C, C)>>

\* C22: for an input of one item the three roots are the leaf hash itself, and
\* the path of leaf 0 has no sibling in either version.
C22_SingleLeaf ==
  Len(mk.dataItems) = 1 =>
    /\ mk.tree # <<>> =>
         Roots = <<LeafHashes[1], LeafHashes[1], LeafHashes[1]>>
    /\ mk.phase \in {"selected", "proved"} =>
         /\ Siblings(mk.merklePath) = <<>>
         /\ Siblings(mk.merklePath2) = <<>>
         /\ calculateMerklePath(LeafHashes, 0) = <<>>

\* the only leaf of a one-item tree was selected and its proof computed
C22_Witness ==
  /\ Len(mk.dataItems) = 1
  /\ mk.phase = "proved"
  /\ mk.selectedLeaf = "leaf-0"
  /\ mk.proof = <<LeafHashes[1]>>

RECURSIVE CeilLog2(_)
CeilLog2(n) == IF n <= 1 THEN 0 ELSE 1 + CeilLog2((n + 1) \div 2)

\* the leaf-level sibling of leaf i: its neighbour, or itself where it is the
\* unpaired last leaf
LeafSibling(i) ==
  LET j == IF i % 2 = 0 THEN i + 1 ELSE i - 1
  IN IF j + 1 <= Len(mk.dataItems) THEN LeafHashes[j + 1] ELSE LeafHashes[i + 1]

\* C23: the path of the selected leaf has exactly ceil(log2(n)) sibling
\* hashes, the leaf level's first; none for n = 1; in both versions.
C23_PathLength ==
  mk.phase = "selected" =>
    /\ Len(Siblings(mk.merklePath2)) = CeilLog2(Len(mk.dataItems))
    /\ Len(Siblings(mk.merklePath)) = CeilLog2(Len(mk.dataItems))
    /\ Len(mk.dataItems) > 1 =>
         /\ Siblings(mk.merklePath2)[1] = LeafSibling(SelectedIndex)
         /\ Siblings(mk.merklePath)[1] = LeafSibling(SelectedIndex)

\* the part of C23 that the version of part_002 satisfies
C23_PathLengthPart002 ==
  mk.phase = "selected" =>
    /\ Len(Siblings(mk.merklePath2)) = CeilLog2(Len(mk.dataItems))
    /\ Len(mk.dataItems) > 1 =>
         Siblings(mk.merklePath2)[1] = LeafSibling(SelectedIndex)

\* C24: a tree built from a block's transaction ids has the ids themselves as
\* leaf hashes, and its root is the pairwise fold of the ids.
C24_BlockIdsAreLeaves ==
  (mk.source = "block" /\ mk.tree # <<>>) =>
    /\ \A i \in 1..Len(mk.dataItems) :
         /\ leafHash(mk.tree[1], "leaf-" \o ToString(i - 1)) = <<mk.dataItems[i]>>
         /\ leafHash(mk.tree2[1], "leaf-" \o ToString(i - 1)) = <<mk.dataItems[i]>>
    /\ mk.tree[1].hash = FoldLevels(mk.dataItems)
    /\ mk.tree2[1].hash = FoldLevels(mk.dataItems)

\* requests sent by the current call of getSpentStatus
RequestsSent == Len(gs.responses) + (IF gs.state = "waiting" THEN 1 ELSE 0)

SpentStatusEnded == gs.state \in {"returned", "thrown"}

\* C25: getSpentStatus returns unspent (null) only if some attempt was
\* answered 404 or 400; when every attempt failed with 429 or another
\* transient error, the call throws.
C25_UnspentOnlyOn404Or400 ==
  /\ (gs.state = "returned" /\ gs.result = "null") =>
       \E i \in 1..Len(gs.responses) : gs.responses[i] \in {"404", "400"}
  /\ (/\ SpentStatusEnded
      /\ \A i \in 1..Len(gs.responses) : gs.responses[i] \in {"429", "other"}) =>
       gs.state = "thrown"

\* every attempt failed, with 429 and with other errors, and the call threw
C25_Witness ==
  /\ gs.state = "thrown"
  /\ Len(gs.responses) = maxRetries + 1
  /\ \E i \in 1..Len(gs.responses) : gs.responses[i] = "429"
  /\ \E i \in 1..Len(gs.responses) : gs.responses[i] = "other"

\* C30: getSpentStatus sends at most maxRetries + 1 = 4 requests; a 400 is
\* never retried and is reported as unspent; a 404 is retried at most once
\* before unspent is reported.
C30_BoundedRetries ==
  /\ RequestsSent <= maxRetries + 1
  /\ \A i \in 1..Len(gs.responses) :
       gs.responses[i] = "400" =>
         /\ i = Len(gs.responses)
         /\ gs.state = "returned"
         /\ gs.result = "null"
  /\ Cardinality({i \in 1..Len(gs.responses) : gs.responses[i] = "404"}) <= 2
  /\ \A i, j \in 1..Len(gs.responses) :
       (i < j /\ gs.responses[i] = "404" /\ gs.responses[j] = "404") =>
         /\ j = Len(gs.responses)
         /\ gs.state = "returned"
         /\ gs.result = "null"

\* the first 404 was retried once and the retry was answered 404 again
C30_Witness ==
  /\ gs.state = "returned"
  /\ gs.result = "null"
  /\ gs.responses = <<"404", "404">>

Count(l, x) == Cardinality({i \in 1..Len(l) : l[i] = x})

\* l is txids without some of its elements, the others in their order
RECURSIVE IsSubsequence(_, _)
IsSubsequence(l, txids) ==
  IF l = <<>> THEN TRUE
  ELSE IF txids = <<>> THEN FALSE
  ELSE IF Head(l) = Head(txids) THEN IsSubsequence(Tail(l), Tail(txids))
  ELSE IsSubsequence(l, Tail(txids))

\* the two lists partition txids in input order, and a txid is valid iff it
\* occurs in the block's transaction list
BumpPartition ==
  LET r == bv.result[1]
  IN /\ \A t \in BumpTxids :
          Count(bv.txids, t) = Count(r.validTransactions, t) + Count(r.invalidTransactions, t)
     /\ \A t \in BumpTxids :
          Count(r.validTransactions, t) = 0 \/ Count(r.invalidTransactions, t) = 0
     /\ IsSubsequence(r.validTransactions, bv.txids)
     /\ IsSubsequence(r.invalidTransactions, bv.txids)
     /\ bv.block # <<>> =>
          \A t \in BumpTxids :
            Count(r.validTransactions, t) > 0 =>
              \E i \in 1..Len(bv.block[1].tx) : bv.block[1].tx[i] = t
     /\ bv.block # <<>> =>
          \A t \in BumpTxids :
            Count(r.invalidTransactions, t) > 0 =>
              \A i \in 1..Len(bv.block[1].tx) : bv.block[1].tx[i] # t

\* whenever the block fetch fails, isValid is false and every txid is invalid
BumpFetchFailure ==
  bv.block = <<>> =>
    /\ ~bv.result[1].isValid
    /\ bv.result[1].invalidTransactions = bv.txids
    /\ bv.result[1].validTransactions = <<>>

\* C26 as stated: validateBumpData ends with a result (it never throws) in
\* which the lists partition txids, a txid is valid iff it is in the block,
\* isValid holds iff invalidTransactions is empty, and a failed block fetch
\* gives isValid = false with every txid invalid.
C26_ValidateBump ==
  /\ bv.state \in {"idle", "fetching", "done"}
  /\ bv.state = "done" =>
       /\ BumpPartition
       /\ bv.result[1].isValid <=> bv.result[1].invalidTransactions = <<>>
       /\ BumpFetchFailure

\* C26 amended: isValid holds iff invalidTransactions is empty whenever the
\* block was fetched or txids is not empty; the rest as stated.
C26_ValidateBumpAmended ==
  /\ bv.state \in {"idle", "fetching", "done"}
  /\ bv.state = "done" =>
       /\ BumpPartition
       /\ (bv.block # <<>> \/ bv.txids # <<>>) =>
            (bv.result[1].isValid <=> bv.result[1].invalidTransactions = <<>>)
       /\ BumpFetchFailure

\* a call about two different ids, one of them in the fetched block
C26_Witness ==
  /\ bv.state = "done"
  /\ bv.block # <<>>
  /\ Len(bv.txids) = 2
  /\ Len(bv.result[1].validTransactions) = 1
  /\ Len(bv.result[1].invalidTransactions) = 1
  /\ ~bv.result[1].isValid

\* the varint at offset `at` has its prefix and all its bytes in the buffer
WholeVarInt(hexBytes, at) ==
  /\ at < Len(hexBytes)
  /\ LET first == hexBytes[at + 1]
         size == IF first < 253 THEN 1
                 ELSE IF first = 253 THEN 3
                 ELSE IF first = 254 THEN 5
                 ELSE 9
     IN at + size <= Len(hexBytes)

\* value is the non-negative little-endian number of the n bytes after the
\* prefix at offset `at`
RECURSIVE IsLittleEndian(_, _, _, _)
IsLittleEndian(value, hexBytes, at, n) ==
  IF n = 0
  THEN value = 0
  ELSE /\ value >= 0
       /\ value % 256 = hexBytes[at + 2]
       /\ IsLittleEndian(value \div 256, hexBytes, at + 1, n - 1)

\* C27: readVarint returns, for each of the four prefix classes, the
\* non-negative little-endian value of the bytes after the prefix and the
\* number of bytes consumed (1, 3, 5 or 9); it does not throw on a varint
\* that is wholly in the buffer.
C27_ReadVarint ==
  /\ \A k \in 1..Len(rd.varints) :
       LET v == rd.varints[k]
       IN WholeVarInt(rd.hexBytes, v.at) =>
            LET first == rd.hexBytes[v.at + 1]
            IN /\ first < 253 => v.value = first /\ v.length = 1
               /\ first = 253 => v.length = 3 /\ IsLittleEndian(v.value, rd.hexBytes, v.at, 2)
               /\ first = 254 => v.length = 5 /\ IsLittleEndian(v.value, rd.hexBytes, v.at, 4)
               /\ first = 255 => v.length = 9
  /\ rd.state = "thrown" => ~WholeVarInt(rd.hexBytes, rd.offset)

\* C27, the part that holds: the one-byte and the 0xFD classes
C27_ShortClasses ==
  \A k \in 1..Len(rd.varints) :
    LET v == rd.varints[k]
    IN WholeVarInt(rd.hexBytes, v.at) =>
         LET first == rd.hexBytes[v.at + 1]
         IN /\ first < 253 => v.value = first /\ v.length = 1
            /\ first = 253 => v.length = 3 /\ IsLittleEndian(v.value, rd.hexBytes, v.at, 2)

\* C28: in every successful parse the cursor offset never exceeds the buffer
\* length: a read that would pass the end of the buffer fails the decoding.
C28_NeverPastEnd ==
  rd.state = "returned" => rd.offset <= Len(rd.hexBytes)

\* the transactions reached from the root by at most k discovered spending
\* edges
RECURSIVE Within(_)
Within(k) ==
  IF k = 0
  THEN {TxNodeId(RootTxid)}
  ELSE LET w == Within(k - 1)
       IN w \cup {edges[i].to : i \in {j \in 1..Len(edges) :
                                         /\ edges[j].type = "spending"
                                         /\ edges[j].from \in w}}

\* n is reached by a spending path of length k and by no shorter one
IsShortestPath(n, k) == n \in Within(k) /\ (k = 0 \/ n \notin Within(k - 1))

\* C29: when a traversal without depth or value filter completes, the level of
\* every root or intermediate node is the length of the shortest spending
\* path from the root transaction to it.
C29_LevelIsShortestPath ==
  (status = "completed" /\ maxDepth = 0 /\ minValueBSV = 0) =>
    \A n \in DOMAIN nodes :
      nodes[n].type \in {"root", "intermediate"} =>
        IsShortestPath(n, nodes[n].level)

\* a completed traversal that reached a transaction by two paths of different
\* length
C29_TwoPaths ==
  /\ status = "completed" /\ maxDepth = 0 /\ minValueBSV = 0
  /\ \E i, j \in 1..Len(edges) :
       /\ edges[i].type = "spending" /\ edges[j].type = "spending"
       /\ edges[i].to = edges[j].to
       /\ edges[i].from \in DOMAIN nodes /\ edges[j].from \in DOMAIN nodes
       /\ nodes[edges[i].from].level < nodes[edges[j].from].level

\* the number of 429 failures since the last request that did not fail so
RECURSIVE Trailing429(_)
Trailing429(outcomes) ==
  IF outcomes = <<>> \/ outcomes[Len(outcomes)] # "429"
  THEN 0
  ELSE 1 + Trailing429(SubSeq(outcomes, 1, Len(outcomes) - 1))

\* C31: after k >= 1 consecutive requests that fail with a 429 error the
\* backoff delay is min(2^(k-1), 16) seconds, and after a successful request
\* the counter and the delay are 0 again.
C31_Backoff ==
  LET k == Trailing429(rq.outcomes)
  IN /\ k >= 1 =>
          /\ rq.consecutiveRateLimitErrors = k
          /\ rq.currentBackoffDelay = Min(Pow2(Min(k - 1, 4)) * 1000, 16000)
     /\ (rq.outcomes # <<>> /\ rq.outcomes[Len(rq.outcomes)] = "ok") =>
          /\ rq.consecutiveRateLimitErrors = 0
          /\ rq.currentBackoffDelay = 0

\* C31, the part that holds: after a successful request the counter and the
\* delay are 0
C31_ResetOnSuccess ==
  (rq.outcomes # <<>> /\ rq.outcomes[Len(rq.outcomes)] = "ok") =>
    /\ rq.consecutiveRateLimitErrors = 0
    /\ rq.currentBackoffDelay = 0

RequestsInFlight == {l \in 1..Len(rq.loops) : rq.loops[l].pc = "request"}

\* C32: the queue executes at most one request at a time and starts the
\* requests in the order they were enqueued.
C32_OneAtATimeInOrder ==
  /\ Cardinality(RequestsInFlight) <= 1
  /\ Len(rq.started) <= Len(rq.enqueued)
  /\ rq.started = SubSeq(rq.enqueued, 1, Len(rq.started))

\* a request is enqueued while another is executing, and both were started
C32_Witness ==
  /\ Len(rq.started) >= 2
  /\ rq.started[1] > rq.started[2]
  /\ Cardinality(RequestsInFlight) = 1
  /\ rq.settled[rq.started[1]] # "pending"

IsEnqueued(id) == \E k \in 1..Len(rq.enqueued) : rq.enqueued[k] = id

IsStarted(id) == \E k \in 1..Len(rq.started) : rq.started[k] = id

\* C33: every request passed to enqueue is eventually started and its
\* caller's promise settled, and the drain loop never stops with a non-empty
\* queue.
C33_EveryRequestSettles ==
  /\ [](rq.processing = FALSE => rq.queue = <<>>)
  /\ [](rq.loops = <<>> => rq.queue = <<>>)
  /\ \A id \in RequestIds :
       IsEnqueued(id) ~> (IsStarted(id) /\ rq.settled[id] # "pending")

\* a request enqueued while the loop was executing another one has been
\* settled and the loop has stopped
C33_Witness ==
  /\ Len(rq.enqueued) >= 2
  /\ rq.loops = <<>>
  /\ ~rq.processing
  /\ \A k \in 1..Len(rq.enqueued) : rq.settled[rq.enqueued[k]] # "pending"
  /\ \E k \in 1..Len(rq.outcomes) : rq.outcomes[k] # "ok"

\* C34: the proxy issues any two upstream requests at least 350 ms apart,
\* also when several POST handlers are in rateLimit() at the same time.
C34_UpstreamSpacing ==
  \A k \in 2..Len(px.gaps) : px.gaps[k] >= rateLimitDelay

\* C34, the part that holds: a handler that finds no other handler waiting
\* issues its request at least 350 ms after the one before
C34_SpacingWithoutWaiters ==
  [][\A h \in PostIds :
       (/\ px.handlers[h].pc = "body"
        /\ px'.handlers[h].pc = "fetch"
        /\ \A g \in PostIds : px.handlers[g].pc # "timer")
       => px'.gaps[Len(px'.gaps)] >= rateLimitDelay]_vars

\* the ids of the nodes met on all paths from the root down, a node reached
\* by two paths counted twice
RECURSIVE NodeIds(_)
NodeIds(node) ==
  <<node.id>>
    \o (IF node.left # <<>> THEN NodeIds(node.left[1]) ELSE <<>>)
    \o (IF node.right # <<>> THEN NodeIds(node.right[1]) ELSE <<>>)

NoNodeShared(tree) ==
  LET ids == NodeIds(tree)
  IN \A i, j \in 1..Len(ids) : ids[i] = ids[j] => i = j

\* C35: in a built Merkle tree no node is shared: every node is reached from
\* the root by exactly one path and all node ids are distinct, the copies made
\* for odd levels included.
C35_NoNodeShared ==
  mk.tree # <<>> => NoNodeShared(mk.tree[1]) /\ NoNodeShared(mk.tree2[1])

\* C35, the part that holds: the tree of MerkleTreeVisualizer.tsx, which makes
\* no copies
C35_NoNodeSharedWithoutCopies ==
  mk.tree # <<>> => NoNodeShared(mk.tree[1])

\* C36: validateMerklePath folds from the offset of the level-0 leaf that
\* carries txid, so every client txid of a whole BUMP validates to
\* isValid = true against the root of the block.
C36_EveryClientValidates ==
  (mp.state = "returned" /\ mp.whole) => mp.result[1].isValid

\* C36, the part that holds: the only client txid of a whole BUMP validates
C36_SingleClientValidates ==
  (mp.state = "returned" /\ mp.whole /\ Cardinality(mp.clients) = 1) =>
    mp.result[1].isValid

\* the sibling offset needed at each non-empty level on the way up from
\* offset, by level
NeededSibling(offset, level) == Sibling(offset \div Pow2(level))

\* C37: validateMerklePath pairs the current hash with itself only at a level
\* whose sibling is flagged isDuplicate, and when the sibling needed at a
\* non-empty level is absent and not flagged the result is isValid = false.
C37_SelfPairOnlyDuplicates ==
  mp.state = "returned" =>
    /\ \A sp \in mp.result[1].selfPaired :
         \E k \in 1..Len(mp.merklePath[sp[1] + 1]) :
           /\ mp.merklePath[sp[1] + 1][k].offset = sp[2]
           /\ mp.merklePath[sp[1] + 1][k].isDuplicate
    /\ (\E level \in 0..(Len(mp.merklePath) - 1) :
          /\ mp.merklePath[level + 1] # <<>>
          /\ \A k \in 1..Len(mp.merklePath[level + 1]) :
               mp.merklePath[level + 1][k].offset # NeededSibling(mp.offset, level))
       => ~mp.result[1].isValid

\* a BUMP that lacks the duplicate flag of its last level-0 leaf validates
C37_SilentSelfPair ==
  /\ mp.state = "returned"
  /\ ~mp.whole
  /\ mp.result[1].selfPaired # {}
  /\ \A level \in 1..Len(mp.merklePath) :
       \A k \in 1..Len(mp.merklePath[level]) : ~mp.merklePath[level][k].isDuplicate
  /\ mp.result[1].isValid

\* both ends of every edge are ids of the node map
EndpointsPresent ==
  \A i \in 1..Len(edges) :
    edges[i].from \in DOMAIN nodes /\ edges[i].to \in DOMAIN nodes

\* the edges of a run are kept as they are, new ones are added at the end
EdgesOnlyGrow ==
  status # "idle" =>
    /\ Len(edges') >= Len(edges)
    /\ SubSeq(edges', 1, Len(edges)) = edges

\* C38: in every state of a traversal run both endpoints of every edge are
\* ids present in the node map, and the edge list only grows.
C38_EdgesWellFormed == []EndpointsPresent /\ [][EdgesOnlyGrow]_vars

\* a run that was paused and resumed has added a spending edge, a utxo edge
\* and a fee edge
C38_Witness ==
  /\ \E i \in 1..Len(edges) : edges[i].type = "spending"
  /\ \E i \in 1..Len(edges) : edges[i].type = "utxo"
  /\ \E i \in 1..Len(edges) : edges[i].type = "fee"
  /\ \E t \in Threads \ {Main} : pc[t] # "free"

NoBumpValidating ==
  bf.validatingBumps = {} /\ \A i \in BumpIndexes : bf.calls[i].pc = "idle"

\* C40: after the validations of two BUMPs that were in progress at the same
\* time have finished, each BUMP holds its own final result with
\* isValidating = false.
C40_EachBumpKeepsItsResult ==
  NoBumpValidating =>
    \A i \in BumpIndexes :
      bf.last[i] # <<>> => bf.parsedBEEF.bumps[i] = bf.last[i]

\* C40, the part that holds: a validation that ends while no other is in
\* progress leaves its result in its BUMP
C40_AloneKeepsItsResult ==
  [][\A i \in BumpIndexes :
       (/\ bf.calls[i].pc = "await"
        /\ bf'.calls[i].pc = "idle"
        /\ bf.validatingBumps = {i})
       => bf'.parsedBEEF.bumps[i] = bf'.last[i]]_vars

\* what is displayed is a graph of the new instance
ShowsNewRun(u) ==
  /\ u.graphData # <<>>
  /\ TxNodeId(NewRootTxid) \in DOMAIN u.graphData[1].nodes
  /\ u.graphData[1].nodes[TxNodeId(NewRootTxid)].type = "root"

\* C39: after the user stopped a traversal and started a new one, no emission
\* of the old instance is displayed after the first emission of the new one.
C39_NoEmissionOfOldRun ==
  [][(/\ nt.state = "running"
      /\ (ui'.graphData # ui.graphData \/ ui'.status # ui.status))
     => ShowsNewRun(ui')]_vars

====
